---- MODULE Spec2Model ----
(***************************************************************************)
(* Settlement engine of the Equinox parametric-insurance contracts:        *)
(*   - the score registry  (DeRiskOracle, and the hybrid Oracle with        *)
(*     proof-gated updates),                                                *)
(*   - the pooled vault    (PremiumVault, an ERC-4626 vault that keeps the  *)
(*     premium shares in its own balance),                                  *)
(*   - the policy engine   (DeRiskProtocol: buyPolicy / claimPayout, with   *)
(*     the policies' claim rights as ERC-1155 units).                       *)
(*                                                                         *)
(* Every external entry point is one action.  A reverting call leaves the  *)
(* EVM state as it was, so it is a step that changes no variable; which    *)
(* error it reverts with is given by the ...Error operator of the entry    *)
(* point, which walks the checks in the order of the source.               *)
(*                                                                         *)
(* The two guarded entry points of the engine (nonReentrant) hold the lock *)
(* while the last external interaction (the claim-token acceptance         *)
(* callback, the currency transfer to the claimer) runs: the model keeps   *)
(* _status = ENTERED in that window, where a callee can only try to call   *)
(* back into the engine, and leaves it with engineReturn.                  *)
(*                                                                         *)
(* Amounts are in the smallest currency unit (6 decimals), as in the       *)
(* source.  uint256 arithmetic is exact on every value the model reaches   *)
(* (all are far below 2^256), so it is modelled by integer arithmetic;     *)
(* products that exceed the checker's integer width are computed by        *)
(* MulDivQR, which gives the same quotient and remainder.                  *)
(***************************************************************************)
EXTENDS Integers, Sequences, FiniteSets, TLC

(***************************************************************************)
(* Bounds of the model.                                                    *)
(***************************************************************************)
\* policies that can be issued (ids 0 .. MaxPolicies-1)
MaxPolicies == 2
\* days the clock can advance (block.timestamp runs 0 .. MaxDays days)
MaxDays == 2
\* proof-gated updates a protocol can receive
MaxVerifications == 2
\* the largest share supply the model follows (2^29); a quotient of mulDiv
\* above it is reported as MaxAmount, which no balance of the model reaches
MaxAmount == 536870912
\* the vault's direct deposit entry points are followed up to this many shares
MaxShares == 4
\* the currency (in its smallest unit) the vault's depositor starts with
VaultFunds == 4

(***************************************************************************)
(* Program constants.                                                      *)
(***************************************************************************)
MIN_PREMIUM == 1000000
MAX_STRIKE_SCORE == 100
MIN_STRIKE_SCORE == 1
MAX_DURATION_DAYS == 365
MIN_DURATION_DAYS == 1
\* Solidity's `1 days`
DAY == 86400
\* the divisor of the premium formula
PREMIUM_DIVISOR == 1000000
\* the journal of an attestation is exactly this many bytes
JOURNAL_LENGTH == 48

(***************************************************************************)
(* Addresses.                                                              *)
(***************************************************************************)
ZERO == "0x0"
OWNER == "owner"
VAULT == "vault"
ENGINE == "engine"
Users == {"A", "B"}
\* the user who holds currency when the system is deployed, and how much
FUNDED_USER == "A"
InitialFunds == 3 * MIN_PREMIUM
Protocols == {"P1", "P2"}
\* every address that can hold currency or vault shares
Holders == Users \cup {VAULT, ENGINE}
\* every address that can send a transaction
Callers == Users \cup {OWNER}
PolicyIds == 0 .. (MaxPolicies - 1)

\* ReentrancyGuard's two values of _status
NOT_ENTERED == "NOT_ENTERED"
ENTERED == "ENTERED"

(***************************************************************************)
(* Arithmetic.                                                             *)
(***************************************************************************)
Min(a, b) == IF a < b THEN a ELSE b

\* <<q, r>> with x * y = q * d + r and 0 <= r < d, computed bit by bit of y
\* so that no intermediate value exceeds 3 * d or the quotient; a quotient
\* above MaxAmount is given as MaxAmount.
RECURSIVE MulDivQR(_, _, _)
MulDivQR(x, y, d) ==
    IF y = 0 THEN <<0, 0>>
    ELSE LET h  == MulDivQR(x, y \div 2, d)
             b  == y % 2
             r2 == 2 * h[2] + b * (x % d)
         IN  <<Min(MaxAmount, 2 * h[1] + b * (x \div d) + (r2 \div d)), r2 % d>>

\* OpenZeppelin Math.mulDiv(x, y, d, rounding): floor or ceiling of x*y/d
mulDiv(x, y, d, roundUp) ==
    LET qr == MulDivQR(x, y, d)
    IN  IF roundUp /\ qr[2] > 0 THEN qr[1] + 1 ELSE qr[1]

RECURSIVE SumOver(_, _)
\* sum of f[x] over the finite set S
SumOver(S, f) ==
    IF S = {} THEN 0
    ELSE LET x == CHOOSE y \in S : TRUE
         IN  f[x] + SumOver(S \ {x}, f)


(***************************************************************************)
(* Inputs the actions draw from.                                           *)
(***************************************************************************)
\* strike scores offered to buyPolicy: below, inside and above [1,100]
StrikeInputs == {0, 50, 101}
\* durations in days offered to buyPolicy: below, inside and above [1,365]
DurationInputs == {0, 1, 366}
\* payout amounts offered to buyPolicy
PayoutInputs == {0, MIN_PREMIUM, 2 * MIN_PREMIUM}
\* scores offered to the registry: around the strike, and above the scale
ScoreInputs == {49, 50, 101}
\* amounts offered to the vault's deposit entry points and to transfers
AmountInputs == {0, MIN_PREMIUM}

(***************************************************************************)
(* State.                                                                  *)
(***************************************************************************)
VARIABLES
    \* block.timestamp
    blockTimestamp,
    \* score registry
    safetyScores, isProtocolRegistered,
    riscZeroVerifier, protocolImageIds, protocolMetrics,
    \* the currency (ERC-20) balances
    usdcBalance,
    \* the vault: share balances, share supply, bound engine, lock
    shareBalance, totalSupply, equinoxProtocol, vaultStatus,
    \* the engine
    nextPolicyId, policies, totalInsuredPerProtocol, balanceOf, engineStatus,
    \* history: per policy id, the amounts the vault paid out for its claims
    \* (one entry per PayoutWithdrawn raised inside claimPayout(id))
    payoutLog,
    \* the arguments of two calls of the view calculatePremium and what each
    \* returned
    premiumQuotes,
    \* the call of buyPolicy or claimPayout being followed statement by
    \* statement: its arguments, the statement it has reached, and the state
    \* at its entry, which a revert restores
    call

oracleVars == <<safetyScores, isProtocolRegistered, riscZeroVerifier,
                protocolImageIds, protocolMetrics>>
scoreVars == <<safetyScores, isProtocolRegistered>>
zkVars == <<riscZeroVerifier, protocolImageIds, protocolMetrics>>
ledgerVars == <<usdcBalance, shareBalance, totalSupply>>
engineVars == <<nextPolicyId, policies, totalInsuredPerProtocol, balanceOf,
                engineStatus, payoutLog>>
vars == <<blockTimestamp, safetyScores, isProtocolRegistered, riscZeroVerifier,
          protocolImageIds, protocolMetrics, usdcBalance, shareBalance,
          totalSupply, equinoxProtocol, vaultStatus, nextPolicyId, policies,
          totalInsuredPerProtocol, balanceOf, engineStatus, payoutLog,
          premiumQuotes, call>>

\* mapping(uint256 => PolicyData): the value of a key never written
NoPolicy ==
    [protocol |-> ZERO, strikeScore |-> 0, expiry |-> 0, payoutAmount |-> 0,
     holder |-> ZERO, exists |-> FALSE, claimed |-> FALSE]

\* no call of calculatePremium is being followed
NoQuotes ==
    [strikeScore |-> <<0, 0>>, durationInDays |-> 0, payoutAmount |-> 0,
     returned |-> <<FALSE, FALSE>>, premium |-> <<0, 0>>]

\* the storage and balances a revert of an engine call restores
Snapshot ==
    [usdcBalance |-> usdcBalance, shareBalance |-> shareBalance,
     totalSupply |-> totalSupply, nextPolicyId |-> nextPolicyId,
     policies |-> policies, totalInsuredPerProtocol |-> totalInsuredPerProtocol,
     balanceOf |-> balanceOf, payoutLog |-> payoutLog]

\* no call is being followed statement by statement
NoCall ==
    [op |-> "none", at |-> "none", sender |-> ZERO, protocol |-> ZERO,
     strikeScore |-> 0, durationInDays |-> 0, payoutAmount |-> 0,
     premium |-> 0, policyId |-> 0,
     entry |-> [usdcBalance |-> [h \in Holders |-> 0],
                shareBalance |-> [h \in Holders |-> 0],
                totalSupply |-> 0, nextPolicyId |-> 0,
                policies |-> [id \in PolicyIds |-> NoPolicy],
                totalInsuredPerProtocol |-> [p \in Protocols |-> 0],
                balanceOf |-> [u \in Users |-> [id \in PolicyIds |-> 0]],
                payoutLog |-> [id \in PolicyIds |-> <<>>]]]

\* struct ProtocolMetrics of a protocol never attested
NoMetrics ==
    [totalAssets |-> [i \in 1 .. 16 |-> 0], totalLiabilities |-> [i \in 1 .. 16 |-> 0],
     lastUpdateTime |-> [i \in 1 .. 8 |-> 0], zkVerificationCount |-> 0]


(***************************************************************************)
(* The currency and the vault's share token (ERC-20), and the ERC-4626     *)
(* conversions PremiumVault inherits.  A ledger is the record              *)
(* [usdc, shares, supply] of the three variables these calls touch; a call *)
(* returns [err, l]: the error it reverts with ("ok" if none) and the      *)
(* ledger it leaves.                                                       *)
(***************************************************************************)
Ledger == [usdc |-> usdcBalance, shares |-> shareBalance, supply |-> totalSupply]

Ok(l) == [err |-> "ok", l |-> l]
Revert(e, l) == [err |-> e, l |-> l]

\* IERC20.transfer / transferFrom of the currency (every allowance the
\* model's callers need has been granted, as in the tests' setUp)
usdcTransfer(l, from, to, amount) ==
    IF l.usdc[from] < amount THEN Revert("ERC20InsufficientBalance", l)
    ELSE Ok([l EXCEPT !.usdc = [[l.usdc EXCEPT ![from] = @ - amount]
                                    EXCEPT ![to] = @ + amount]])

\* ERC20._mint of vault shares
sharesMint(l, to, shares) ==
    [l EXCEPT !.shares = [l.shares EXCEPT ![to] = @ + shares],
              !.supply = l.supply + shares]

\* ERC20._burn of vault shares
sharesBurn(l, from, shares) ==
    IF l.shares[from] < shares THEN Revert("ERC20InsufficientBalance", l)
    ELSE Ok([l EXCEPT !.shares = [l.shares EXCEPT ![from] = @ - shares],
                      !.supply = l.supply - shares])

\* ERC4626.totalAssets: the currency the vault holds
totalAssets(l) == l.usdc[VAULT]

\* ERC4626._convertToShares (decimals offset 0)
convertToSharesRounding(l, assets, roundUp) ==
    mulDiv(assets, l.supply + 1, totalAssets(l) + 1, roundUp)

\* ERC4626._convertToAssets (decimals offset 0)
convertToAssetsRounding(l, shares, roundUp) ==
    mulDiv(shares, totalAssets(l) + 1, l.supply + 1, roundUp)

convertToShares(l, assets) == convertToSharesRounding(l, assets, FALSE)
previewDeposit(l, assets) == convertToSharesRounding(l, assets, FALSE)
previewWithdraw(l, assets) == convertToSharesRounding(l, assets, TRUE)
previewRedeem(l, shares) == convertToAssetsRounding(l, shares, FALSE)

\* ERC4626._deposit: pull the assets from the caller, mint the shares
vaultDeposit(l, caller, receiver, assets, shares) ==
    LET t == usdcTransfer(l, caller, VAULT, assets)
    IN  IF t.err # "ok" THEN Revert(t.err, l)
        ELSE Ok(sharesMint(t.l, receiver, shares))

\* ERC4626._withdraw with caller = owner (no allowance is spent): burn the
\* owner's shares, then send the assets
vaultWithdraw(l, receiver, owner, assets, shares) ==
    LET b == sharesBurn(l, owner, shares)
    IN  IF b.err # "ok" THEN Revert(b.err, l)
        ELSE LET t == usdcTransfer(b.l, VAULT, receiver, assets)
             IN  IF t.err # "ok" THEN Revert(t.err, l) ELSE Ok(t.l)

(***************************************************************************)
(* PremiumVault.                                                           *)
(***************************************************************************)
\* the shares depositPremium mints for `amount`, or the error it raises
depositPremiumShares(l, amount) ==
    LET shares == convertToShares(l, amount)
    IN  IF shares = 0 /\ l.supply = 0 THEN [err |-> "ok", shares |-> 1]
        ELSE IF shares = 0
             THEN IF previewDeposit(l, amount) > 0
                  THEN [err |-> "PremiumVault__DepositTooSmall", shares |-> 0]
                  ELSE [err |-> "ok", shares |-> previewDeposit(l, amount)]
             ELSE [err |-> "ok", shares |-> shares]

\* depositPremiumCall without the check of a zero amount
depositPremiumCall_zeroAccepted(l, status, sender, amount) ==
    IF status = ENTERED THEN Revert("ReentrancyGuardReentrantCall", l)
    ELSE LET s == depositPremiumShares(l, amount)
         IN  IF s.err # "ok" THEN Revert(s.err, l)
             ELSE vaultDeposit(l, sender, VAULT, amount, s.shares)

\* depositPremium(amount) called by `sender` when the vault's lock is `status`
depositPremiumCall(l, status, sender, amount) ==
    IF status = ENTERED THEN Revert("ReentrancyGuardReentrantCall", l)
    ELSE IF amount = 0 THEN Revert("PremiumVault__ZeroDeposit", l)
    ELSE LET s == depositPremiumShares(l, amount)
         IN  IF s.err # "ok" THEN Revert(s.err, l)
             ELSE vaultDeposit(l, sender, VAULT, amount, s.shares)

\* withdrawForPayoutShares converting with convertToShares, which rounds
\* down, and without the floor of one share
withdrawForPayoutShares_roundedDown(l, amount) == convertToShares(l, amount)

\* the shares withdrawForPayout burns for `amount`
withdrawForPayoutShares(l, amount) ==
    LET shares == previewWithdraw(l, amount)
    IN  IF shares = 0 THEN 1 ELSE shares

\* withdrawForPayoutCall without the modifier onlyDeRiskProtocol
withdrawForPayoutCall_anyCaller(l, status, authority, sender, to, amount) ==
    IF status = ENTERED THEN Revert("ReentrancyGuardReentrantCall", l)
    ELSE IF to = ZERO THEN Revert("PremiumVault: invalid to", l)
    ELSE IF amount = 0 THEN Revert("PremiumVault__ZeroDeposit", l)
    ELSE vaultWithdraw(l, to, VAULT, amount, withdrawForPayoutShares(l, amount))

\* withdrawForPayout(to, amount) called by `sender`
withdrawForPayoutCall(l, status, authority, sender, to, amount) ==
    IF status = ENTERED THEN Revert("ReentrancyGuardReentrantCall", l)
    ELSE IF sender # authority THEN Revert("PremiumVault: caller not DeRiskProtocol", l)
    ELSE IF to = ZERO THEN Revert("PremiumVault: invalid to", l)
    ELSE IF amount = 0 THEN Revert("PremiumVault__ZeroDeposit", l)
    ELSE vaultWithdraw(l, to, VAULT, amount, withdrawForPayoutShares(l, amount))


\* nonReentrantBefore that leaves _status as it found it
nonReentrantBefore_lockNotTaken(status) == status

\* ReentrancyGuard._nonReentrantBefore: _status = ENTERED
nonReentrantBefore(status) == ENTERED

\* ReentrancyGuard._nonReentrantAfter: _status = NOT_ENTERED
nonReentrantAfter(status) == NOT_ENTERED

\* a transaction starts only when no guarded call is executing
Idle == engineStatus = NOT_ENTERED /\ vaultStatus = NOT_ENTERED

SetLedger(l) ==
    /\ l.supply < MaxAmount
    /\ usdcBalance' = l.usdc
    /\ shareBalance' = l.shares
    /\ totalSupply' = l.supply

(***************************************************************************)
(* DeRiskProtocol (the policy engine).                                     *)
(***************************************************************************)
\* calculatePremium with the risk growing with the strike
calculatePremium_riskInverted(strikeScore, durationInDays, payoutAmount) ==
    LET riskBasisPoints == strikeScore * 100
        timeMultiplier  == durationInDays
        premium == mulDiv(payoutAmount, riskBasisPoints * timeMultiplier,
                          PREMIUM_DIVISOR, FALSE)
    IN  IF premium < MIN_PREMIUM THEN MIN_PREMIUM ELSE premium

\* calculatePremium without the minimum
calculatePremium_noMinimum(strikeScore, durationInDays, payoutAmount) ==
    LET riskBasisPoints == (100 - strikeScore) * 100
        timeMultiplier  == durationInDays
    IN  mulDiv(payoutAmount, riskBasisPoints * timeMultiplier,
               PREMIUM_DIVISOR, FALSE)

\* calculatePremium(strikeScore, durationInDays, payoutAmount)
calculatePremium(strikeScore, durationInDays, payoutAmount) ==
    LET riskBasisPoints == (100 - strikeScore) * 100
        timeMultiplier  == durationInDays
        premium == mulDiv(payoutAmount, riskBasisPoints * timeMultiplier,
                          PREMIUM_DIVISOR, FALSE)
    IN  IF premium < MIN_PREMIUM THEN MIN_PREMIUM ELSE premium

\* calculatePremium reverts (checked arithmetic) where 100 - strikeScore
\* underflows
calculatePremiumReverts(strikeScore) == strikeScore > 100

\* the i-th of the two calls of the view calculatePremium returns
calculatePremiumCall(i) ==
    /\ premiumQuotes # NoQuotes
    /\ ~premiumQuotes.returned[i]
    /\ ~calculatePremiumReverts(premiumQuotes.strikeScore[i])
    /\ premiumQuotes' = [premiumQuotes EXCEPT
           !.returned[i] = TRUE,
           !.premium[i] = calculatePremium(premiumQuotes.strikeScore[i],
                                           premiumQuotes.durationInDays,
                                           premiumQuotes.payoutAmount)]
    /\ UNCHANGED <<call, blockTimestamp, oracleVars, ledgerVars, equinoxProtocol,
                   vaultStatus, engineVars>>

\* collectPremium that pulls the premium and leaves it in the engine
collectPremium_keptByEngine(l, buyer, premium) ==
    LET pull == usdcTransfer(l, buyer, ENGINE, premium)
    IN  IF pull.err # "ok" THEN Revert(pull.err, l) ELSE Ok(pull.l)

\* the ledger after buyPolicy's premium collection: the pull from the buyer,
\* then vault.depositPremium called by the engine
collectPremium(l, buyer, premium) ==
    LET pull == usdcTransfer(l, buyer, ENGINE, premium)
    IN  IF pull.err # "ok" THEN Revert(pull.err, l)
        ELSE LET dep == depositPremiumCall(pull.l, vaultStatus, ENGINE, premium)
             IN  IF dep.err # "ok" THEN Revert(dep.err, l) ELSE Ok(dep.l)

\* buyPolicyError without the check of the vault's balance
buyPolicyError_noSolvencyCheck(buyer, protocol, strikeScore, durationInDays, payoutAmount) ==
    IF engineStatus = ENTERED THEN "ReentrancyGuardReentrantCall"
    ELSE IF ~isProtocolRegistered[protocol]
        THEN "DeRiskProtocol__InvalidProtocol"
    ELSE IF strikeScore < MIN_STRIKE_SCORE \/ strikeScore > MAX_STRIKE_SCORE
        THEN "DeRiskProtocol__InvalidStrikeScore"
    ELSE IF durationInDays < MIN_DURATION_DAYS \/ durationInDays > MAX_DURATION_DAYS
        THEN "DeRiskProtocol__InvalidDuration"
    ELSE IF payoutAmount = 0
        THEN "DeRiskProtocol__InvalidPayoutAmount"
    ELSE collectPremium(Ledger, buyer,
             calculatePremium(strikeScore, durationInDays, payoutAmount)).err

\* buyPolicyError without the validation of the strike score
buyPolicyError_strikeUnchecked(buyer, protocol, strikeScore, durationInDays, payoutAmount) ==
    IF engineStatus = ENTERED THEN "ReentrancyGuardReentrantCall"
    ELSE IF ~isProtocolRegistered[protocol]
        THEN "DeRiskProtocol__InvalidProtocol"
    ELSE IF durationInDays < MIN_DURATION_DAYS \/ durationInDays > MAX_DURATION_DAYS
        THEN "DeRiskProtocol__InvalidDuration"
    ELSE IF payoutAmount = 0
        THEN "DeRiskProtocol__InvalidPayoutAmount"
    ELSE IF totalAssets(Ledger) < payoutAmount
        THEN "DeRiskProtocol__InsufficientVaultBalance"
    ELSE collectPremium(Ledger, buyer,
             calculatePremium(strikeScore, durationInDays, payoutAmount)).err

\* the validations of buyPolicy, in the order the code makes them
buyPolicyRequires(protocol, strikeScore, durationInDays, payoutAmount) ==
    IF ~isProtocolRegistered[protocol]
        THEN "DeRiskProtocol__InvalidProtocol"
    ELSE IF strikeScore < MIN_STRIKE_SCORE \/ strikeScore > MAX_STRIKE_SCORE
        THEN "DeRiskProtocol__InvalidStrikeScore"
    ELSE IF durationInDays < MIN_DURATION_DAYS \/ durationInDays > MAX_DURATION_DAYS
        THEN "DeRiskProtocol__InvalidDuration"
    ELSE IF payoutAmount = 0
        THEN "DeRiskProtocol__InvalidPayoutAmount"
    ELSE IF totalAssets(Ledger) < payoutAmount
        THEN "DeRiskProtocol__InsufficientVaultBalance"
    ELSE "ok"

\* buyPolicyError that also rejects a purchase the pool cannot cover on top
\* of what the protocol's unclaimed policies already promise
buyPolicyError_exposureChecked(buyer, protocol, strikeScore, durationInDays, payoutAmount) ==
    IF engineStatus = ENTERED THEN "ReentrancyGuardReentrantCall"
    ELSE IF buyPolicyRequires(protocol, strikeScore, durationInDays,
                              payoutAmount) # "ok"
        THEN buyPolicyRequires(protocol, strikeScore, durationInDays, payoutAmount)
    ELSE IF totalAssets(Ledger) < totalInsuredPerProtocol[protocol] + payoutAmount
        THEN "DeRiskProtocol__InsufficientVaultBalance"
    ELSE collectPremium(Ledger, buyer,
             calculatePremium(strikeScore, durationInDays, payoutAmount)).err

\* the error buyPolicy reverts with, "ok" when it goes through
buyPolicyError(buyer, protocol, strikeScore, durationInDays, payoutAmount) ==
    IF engineStatus = ENTERED THEN "ReentrancyGuardReentrantCall"
    ELSE IF buyPolicyRequires(protocol, strikeScore, durationInDays,
                              payoutAmount) # "ok"
        THEN buyPolicyRequires(protocol, strikeScore, durationInDays, payoutAmount)
    ELSE collectPremium(Ledger, buyer,
             calculatePremium(strikeScore, durationInDays, payoutAmount)).err

\* the policy record buyPolicy stores
newPolicy(buyer, protocol, strikeScore, durationInDays, payoutAmount) ==
    [protocol |-> protocol, strikeScore |-> strikeScore,
     expiry |-> blockTimestamp + durationInDays * DAY,
     payoutAmount |-> payoutAmount, holder |-> buyer,
     exists |-> TRUE, claimed |-> FALSE]

\* insuredAfterPurchase that leaves the aggregate as it is
insuredAfterPurchase_notCounted(protocol, payoutAmount) == totalInsuredPerProtocol

\* totalInsuredPerProtocol[protocol] += payoutAmount
insuredAfterPurchase(protocol, payoutAmount) ==
    [totalInsuredPerProtocol EXCEPT ![protocol] = @ + payoutAmount]

\* _mint(msg.sender, policyId, 1, ""): one claim-token unit to the buyer
mintClaimToken(buyer, policyId) ==
    [balanceOf EXCEPT ![buyer][policyId] = @ + 1]

\* nextPolicyId++ that leaves the counter where it was
policyIdAfter_reused(policyId) == policyId

\* policyId = nextPolicyId++: the counter after the id `policyId` is taken
policyIdAfter(policyId) == policyId + 1

\* buyPolicy(protocol, strikeScore, durationInDays, payoutAmount) by `buyer`
buyPolicy(buyer, protocol, strikeScore, durationInDays, payoutAmount) ==
    /\ nextPolicyId < MaxPolicies
    /\ IF buyPolicyError(buyer, protocol, strikeScore, durationInDays,
                         payoutAmount) # "ok"
       THEN UNCHANGED vars
       ELSE LET premium == calculatePremium(strikeScore, durationInDays,
                                            payoutAmount)
                paid     == collectPremium(Ledger, buyer, premium).l
                policyId == nextPolicyId
            IN  /\ SetLedger(paid)
                /\ nextPolicyId' = policyIdAfter(policyId)
                /\ policies' = [policies EXCEPT ![policyId] =
                       newPolicy(buyer, protocol, strikeScore, durationInDays,
                                 payoutAmount)]
                /\ totalInsuredPerProtocol' =
                       insuredAfterPurchase(protocol, payoutAmount)
                /\ balanceOf' = mintClaimToken(buyer, policyId)
                \* the lock is held while the buyer's acceptance callback runs
                /\ engineStatus' = ENTERED
                /\ UNCHANGED <<call, premiumQuotes, blockTimestamp, oracleVars, equinoxProtocol,
                               vaultStatus, payoutLog>>

\* DeRiskOracle.getScore as claimPayout reads it: a revert on an
\* unregistered protocol, the stored score otherwise
getScoreReverts(protocol) == ~isProtocolRegistered[protocol]
getScore(protocol) == safetyScores[protocol]

\* claimPayoutCheck with the strike comparison strict (score > strike
\* rejects, score == strike pays)
claimPayoutCheck_strikeInclusive(claimer, policyId) ==
    LET policy == policies[policyId]
    IN  IF engineStatus = ENTERED THEN "ReentrancyGuardReentrantCall"
        ELSE IF ~policy.exists THEN "DeRiskProtocol__PolicyDoesNotExist"
        ELSE IF balanceOf[claimer][policyId] = 0 THEN "DeRiskProtocol__NotPolicyOwner"
        ELSE IF blockTimestamp >= policy.expiry THEN "DeRiskProtocol__PolicyExpired"
        ELSE IF policy.claimed THEN "DeRiskProtocol__PolicyAlreadyClaimed"
        ELSE IF getScoreReverts(policy.protocol) THEN "Protocol not registered"
        ELSE IF getScore(policy.protocol) > policy.strikeScore
            THEN "DeRiskProtocol__StrikeNotBreached"
        ELSE "ok"

\* claimPayoutCheck with the expiry comparison strict (now > expiry rejects,
\* now == expiry is still in time)
claimPayoutCheck_expiryExclusive(claimer, policyId) ==
    LET policy == policies[policyId]
    IN  IF engineStatus = ENTERED THEN "ReentrancyGuardReentrantCall"
        ELSE IF ~policy.exists THEN "DeRiskProtocol__PolicyDoesNotExist"
        ELSE IF balanceOf[claimer][policyId] = 0 THEN "DeRiskProtocol__NotPolicyOwner"
        ELSE IF blockTimestamp > policy.expiry THEN "DeRiskProtocol__PolicyExpired"
        ELSE IF policy.claimed THEN "DeRiskProtocol__PolicyAlreadyClaimed"
        ELSE IF getScoreReverts(policy.protocol) THEN "Protocol not registered"
        ELSE IF getScore(policy.protocol) >= policy.strikeScore
            THEN "DeRiskProtocol__StrikeNotBreached"
        ELSE "ok"

\* claimPayoutCheck authorising the buyer stored in the record, not the
\* holder of the claim token
claimPayoutCheck_holderOfRecord(claimer, policyId) ==
    LET policy == policies[policyId]
    IN  IF engineStatus = ENTERED THEN "ReentrancyGuardReentrantCall"
        ELSE IF ~policy.exists THEN "DeRiskProtocol__PolicyDoesNotExist"
        ELSE IF policy.holder # claimer THEN "DeRiskProtocol__NotPolicyOwner"
        ELSE IF blockTimestamp >= policy.expiry THEN "DeRiskProtocol__PolicyExpired"
        ELSE IF policy.claimed THEN "DeRiskProtocol__PolicyAlreadyClaimed"
        ELSE IF getScoreReverts(policy.protocol) THEN "Protocol not registered"
        ELSE IF getScore(policy.protocol) >= policy.strikeScore
            THEN "DeRiskProtocol__StrikeNotBreached"
        ELSE "ok"

\* claimPayoutCheck without the check of the expiry
claimPayoutCheck_expiryUnchecked(claimer, policyId) ==
    LET policy == policies[policyId]
    IN  IF engineStatus = ENTERED THEN "ReentrancyGuardReentrantCall"
        ELSE IF ~policy.exists THEN "DeRiskProtocol__PolicyDoesNotExist"
        ELSE IF balanceOf[claimer][policyId] = 0 THEN "DeRiskProtocol__NotPolicyOwner"
        ELSE IF policy.claimed THEN "DeRiskProtocol__PolicyAlreadyClaimed"
        ELSE IF getScoreReverts(policy.protocol) THEN "Protocol not registered"
        ELSE IF getScore(policy.protocol) >= policy.strikeScore
            THEN "DeRiskProtocol__StrikeNotBreached"
        ELSE "ok"

\* the checks of claimPayout before it changes anything
claimPayoutCheck(claimer, policyId) ==
    LET policy == policies[policyId]
    IN  IF engineStatus = ENTERED THEN "ReentrancyGuardReentrantCall"
        ELSE IF ~policy.exists THEN "DeRiskProtocol__PolicyDoesNotExist"
        ELSE IF balanceOf[claimer][policyId] = 0 THEN "DeRiskProtocol__NotPolicyOwner"
        ELSE IF blockTimestamp >= policy.expiry THEN "DeRiskProtocol__PolicyExpired"
        ELSE IF policy.claimed THEN "DeRiskProtocol__PolicyAlreadyClaimed"
        ELSE IF getScoreReverts(policy.protocol) THEN "Protocol not registered"
        ELSE IF getScore(policy.protocol) >= policy.strikeScore
            THEN "DeRiskProtocol__StrikeNotBreached"
        ELSE "ok"

\* what the view isClaimable returns
Claimable == [err |-> "ok", claimable |-> TRUE, reason |-> ""]
NotClaimable(reason) == [err |-> "ok", claimable |-> FALSE, reason |-> reason]
\* the view reverts, in oracle.getScore
ViewReverts(e) == [err |-> e, claimable |-> FALSE, reason |-> ""]

\* isClaimable without the check of the expiry
isClaimable_expiryUnchecked(policyId) ==
    LET policy == policies[policyId]
    IN  IF ~policy.exists THEN NotClaimable("Policy does not exist")
        ELSE IF policy.claimed THEN NotClaimable("Policy already claimed")
        ELSE IF getScoreReverts(policy.protocol) THEN ViewReverts("Protocol not registered")
        ELSE IF getScore(policy.protocol) >= policy.strikeScore
            THEN NotClaimable("Strike not breached")
        ELSE Claimable

\* isClaimable(policyId): (claimable, reason), by anyone, changing nothing
isClaimable(policyId) ==
    LET policy == policies[policyId]
    IN  IF ~policy.exists THEN NotClaimable("Policy does not exist")
        ELSE IF policy.claimed THEN NotClaimable("Policy already claimed")
        ELSE IF blockTimestamp >= policy.expiry THEN NotClaimable("Policy expired")
        ELSE IF getScoreReverts(policy.protocol) THEN ViewReverts("Protocol not registered")
        ELSE IF getScore(policy.protocol) >= policy.strikeScore
            THEN NotClaimable("Strike not breached")
        ELSE Claimable

\* markClaimed that leaves the flag as it is
markClaimed_skipped(policyId) == policies

\* policy.claimed = true
markClaimed(policyId) == [policies EXCEPT ![policyId].claimed = TRUE]

\* insuredAfterClaim that leaves the aggregate as it is
insuredAfterClaim_skipped(policyId) == totalInsuredPerProtocol

\* totalInsuredPerProtocol[policy.protocol] -= policy.payoutAmount
insuredAfterClaim(policyId) ==
    [totalInsuredPerProtocol EXCEPT
         ![policies[policyId].protocol] = @ - policies[policyId].payoutAmount]

\* burnClaimToken that leaves the unit with the claimer
burnClaimToken_skipped(claimer, policyId) == balanceOf

\* _burn(msg.sender, policyId, 1): the claimer's claim-token unit destroyed
burnClaimToken(claimer, policyId) ==
    [balanceOf EXCEPT ![claimer][policyId] = @ - 1]

\* claimPayoutWithdraw that pays the buyer of record (policy.holder)
\* instead of the caller
claimPayoutWithdraw_toHolderOfRecord(claimer, policyId) ==
    IF totalInsuredPerProtocol[policies[policyId].protocol]
           < policies[policyId].payoutAmount
    THEN Revert("Panic(0x11)", Ledger)
    ELSE IF balanceOf[claimer][policyId] < 1
    THEN Revert("ERC1155InsufficientBalance", Ledger)
    ELSE withdrawForPayoutCall(Ledger, vaultStatus, equinoxProtocol, ENGINE,
                               policies[policyId].holder,
                               policies[policyId].payoutAmount)

\* what can still revert in claimPayout after its checks: the checked
\* subtraction from totalInsuredPerProtocol, the claim token's burn, and
\* vault.withdrawForPayout(msg.sender, payoutAmount) called by the engine
claimPayoutWithdraw(claimer, policyId) ==
    IF totalInsuredPerProtocol[policies[policyId].protocol]
           < policies[policyId].payoutAmount
    THEN Revert("Panic(0x11)", Ledger)
    ELSE IF balanceOf[claimer][policyId] < 1
    THEN Revert("ERC1155InsufficientBalance", Ledger)
    ELSE withdrawForPayoutCall(Ledger, vaultStatus, equinoxProtocol, ENGINE,
                               claimer, policies[policyId].payoutAmount)

\* the error claimPayout reverts with, "ok" when it goes through
claimPayoutError(claimer, policyId) ==
    IF claimPayoutCheck(claimer, policyId) # "ok"
    THEN claimPayoutCheck(claimer, policyId)
    ELSE claimPayoutWithdraw(claimer, policyId).err

\* claimPayout(policyId) by `claimer`
claimPayout(claimer, policyId) ==
    IF claimPayoutError(claimer, policyId) # "ok"
    THEN UNCHANGED vars
    ELSE LET policy == policies[policyId]
             paid   == claimPayoutWithdraw(claimer, policyId).l
         IN  /\ policies' = markClaimed(policyId)
             /\ totalInsuredPerProtocol' = insuredAfterClaim(policyId)
             /\ balanceOf' = burnClaimToken(claimer, policyId)
             /\ SetLedger(paid)
             /\ payoutLog' = [payoutLog EXCEPT ![policyId] =
                                  Append(@, policy.payoutAmount)]
             \* both locks are held while the transfer to the claimer runs
             /\ engineStatus' = ENTERED
             /\ vaultStatus' = ENTERED
             /\ UNCHANGED <<call, premiumQuotes, blockTimestamp, oracleVars, equinoxProtocol,
                            nextPolicyId>>

\* the guarded entry point returns: nonReentrant resets _status
engineReturn ==
    /\ engineStatus = ENTERED
    /\ engineStatus' = NOT_ENTERED
    /\ vaultStatus' = NOT_ENTERED
    /\ UNCHANGED <<call, premiumQuotes, blockTimestamp, oracleVars, ledgerVars, equinoxProtocol,
                   nextPolicyId, policies, totalInsuredPerProtocol, balanceOf,
                   payoutLog>>

\* ERC1155.safeTransferFrom(from, to, id, 1, "") by `from` to another user
safeTransferFrom(from, to, policyId) ==
    /\ engineStatus = NOT_ENTERED
    /\ IF to = ZERO \/ balanceOf[from][policyId] < 1
       THEN UNCHANGED vars
       ELSE /\ balanceOf' = [[balanceOf EXCEPT ![from][policyId] = @ - 1]
                                 EXCEPT ![to][policyId] = @ + 1]
            /\ UNCHANGED <<call, premiumQuotes, blockTimestamp, oracleVars, ledgerVars,
                           equinoxProtocol, vaultStatus, nextPolicyId, policies,
                           totalInsuredPerProtocol, engineStatus, payoutLog>>


(***************************************************************************)
(* PremiumVault's entry points called directly.                            *)
(***************************************************************************)
\* depositPremium(amount) by `sender`
depositPremium(sender, amount) ==
    /\ Idle
    /\ LET r == depositPremiumCall(Ledger, vaultStatus, sender, amount)
       IN  IF r.err # "ok" THEN UNCHANGED vars
           ELSE /\ r.l.supply <= MaxShares
                /\ SetLedger(r.l)
                /\ UNCHANGED <<call, premiumQuotes, blockTimestamp, oracleVars, equinoxProtocol,
                               vaultStatus, engineVars>>

\* withdrawForPayout(to, amount) by `sender`, outside a claim
withdrawForPayout(sender, to, amount) ==
    /\ Idle
    /\ LET r == withdrawForPayoutCall(Ledger, vaultStatus, equinoxProtocol,
                                      sender, to, amount)
       IN  IF r.err # "ok" THEN UNCHANGED vars
           ELSE /\ SetLedger(r.l)
                /\ UNCHANGED <<call, premiumQuotes, blockTimestamp, oracleVars, equinoxProtocol,
                               vaultStatus, engineVars>>

\* setDeRiskProtocol(_deRiskProtocol) by `sender`
setDeRiskProtocolError(sender, deRiskProtocol) ==
    IF sender # OWNER THEN "OwnableUnauthorizedAccount"
    ELSE IF deRiskProtocol = ZERO THEN "PremiumVault: zero address"
    ELSE "ok"

setDeRiskProtocol(sender, deRiskProtocol) ==
    /\ Idle
    /\ IF setDeRiskProtocolError(sender, deRiskProtocol) # "ok" THEN UNCHANGED vars
       ELSE /\ equinoxProtocol' = deRiskProtocol
            /\ UNCHANGED <<call, premiumQuotes, blockTimestamp, oracleVars, ledgerVars, vaultStatus,
                           engineVars>>

\* a token other than the currency that is stuck in the vault and whose
\* transfer calls the recipient
STUCK_TOKEN == "stuck"

\* emergencyWithdrawCall that burns one of the vault's own shares, when it
\* holds any, for the currency it sends out
emergencyWithdrawCall_burnsShares(l, status, sender, token, to, amount) ==
    IF sender # OWNER THEN Revert("OwnableUnauthorizedAccount", l)
    ELSE IF status = ENTERED THEN Revert("ReentrancyGuardReentrantCall", l)
    ELSE IF to = ZERO THEN Revert("PremiumVault: invalid recipient", l)
    ELSE IF ~(amount > 0) THEN Revert("PremiumVault: zero amount", l)
    ELSE IF token = ZERO THEN Revert("PremiumVault: ETH transfer failed", l)
    ELSE IF token = STUCK_TOKEN THEN Ok(l)
    ELSE LET r == usdcTransfer(l, VAULT, to, amount)
         IN  IF r.err # "ok" THEN r
             ELSE sharesBurn(r.l, VAULT, Min(1, r.l.shares[VAULT]))

\* emergencyWithdraw(token, to, amount) by `sender`; token is the currency,
\* the stuck token, or ZERO for ether, of which the vault holds none
emergencyWithdrawCall(l, status, sender, token, to, amount) ==
    IF sender # OWNER THEN Revert("OwnableUnauthorizedAccount", l)
    ELSE IF status = ENTERED THEN Revert("ReentrancyGuardReentrantCall", l)
    ELSE IF to = ZERO THEN Revert("PremiumVault: invalid recipient", l)
    ELSE IF ~(amount > 0) THEN Revert("PremiumVault: zero amount", l)
    ELSE IF token = ZERO THEN Revert("PremiumVault: ETH transfer failed", l)
    ELSE IF token = STUCK_TOKEN THEN Ok(l)
    ELSE usdcTransfer(l, VAULT, to, amount)

\* the call runs to its end, except that the transfer of the stuck token
\* hands control to the recipient while the vault's lock is held
emergencyWithdraw(sender, token, to, amount) ==
    /\ Idle
    /\ LET r == emergencyWithdrawCall(Ledger, vaultStatus, sender, token, to, amount)
       IN  IF r.err # "ok" THEN UNCHANGED vars
           ELSE /\ SetLedger(r.l)
                /\ vaultStatus' = IF token = STUCK_TOKEN
                                  THEN nonReentrantBefore(vaultStatus)
                                  ELSE vaultStatus
                /\ UNCHANGED <<call, premiumQuotes, blockTimestamp, oracleVars, equinoxProtocol,
                               engineVars>>

\* the transfer of the stuck token is over and emergencyWithdraw returns
emergencyWithdrawReturn ==
    /\ vaultStatus = ENTERED
    /\ engineStatus = NOT_ENTERED
    /\ vaultStatus' = nonReentrantAfter(vaultStatus)
    /\ UNCHANGED <<call, premiumQuotes, blockTimestamp, oracleVars, ledgerVars,
                   equinoxProtocol, engineVars>>

\* ERC4626.deposit(assets, receiver) with receiver = the caller; the
\* inherited entry point has no nonReentrant modifier
deposit(caller, assets) ==
    /\ LET r == vaultDeposit(Ledger, caller, caller, assets,
                             previewDeposit(Ledger, assets))
       IN  IF r.err # "ok" THEN UNCHANGED vars
           ELSE /\ r.l.supply <= MaxShares
                /\ SetLedger(r.l)
                /\ UNCHANGED <<call, premiumQuotes, blockTimestamp, oracleVars, equinoxProtocol,
                               vaultStatus, engineVars>>

\* ERC4626.redeem(shares, receiver, owner) with receiver = owner = the caller
redeem(caller, shares) ==
    /\ LET r == IF shares > shareBalance[caller]
                THEN Revert("ERC4626ExceededMaxRedeem", Ledger)
                ELSE vaultWithdraw(Ledger, caller, caller,
                                   previewRedeem(Ledger, shares), shares)
       IN  IF r.err # "ok" THEN UNCHANGED vars
           ELSE /\ SetLedger(r.l)
                /\ UNCHANGED <<call, premiumQuotes, blockTimestamp, oracleVars, equinoxProtocol,
                               vaultStatus, engineVars>>

\* IERC20.transfer(vault, amount) of the currency by `from`
transferToVault(from, amount) ==
    /\ Idle
    /\ LET r == usdcTransfer(Ledger, from, VAULT, amount)
       IN  IF r.err # "ok" THEN UNCHANGED vars
           ELSE /\ SetLedger(r.l)
                /\ UNCHANGED <<call, premiumQuotes, blockTimestamp, oracleVars, equinoxProtocol,
                               vaultStatus, engineVars>>

(***************************************************************************)
(* DeRiskOracle, the registry the engine is deployed against.              *)
(***************************************************************************)
DeRiskOracle_addProtocol(sender, protocol, initialScore) ==
    /\ Idle
    /\ IF \/ sender # OWNER
          \/ protocol = ZERO
          \/ isProtocolRegistered[protocol]
          \/ ~(initialScore <= 100)
       THEN UNCHANGED vars
       ELSE /\ isProtocolRegistered' = [isProtocolRegistered EXCEPT ![protocol] = TRUE]
            /\ safetyScores' = [safetyScores EXCEPT ![protocol] = initialScore]
            /\ UNCHANGED <<call, premiumQuotes, blockTimestamp, zkVars, ledgerVars, equinoxProtocol,
                           vaultStatus, engineVars>>

DeRiskOracle_updateScore(sender, protocol, newScore) ==
    /\ Idle
    /\ IF \/ sender # OWNER
          \/ ~isProtocolRegistered[protocol]
          \/ ~(newScore <= 100)
       THEN UNCHANGED vars
       ELSE /\ safetyScores' = [safetyScores EXCEPT ![protocol] = newScore]
            /\ UNCHANGED <<call, premiumQuotes, blockTimestamp, isProtocolRegistered, zkVars,
                           ledgerVars, equinoxProtocol, vaultStatus, engineVars>>

(***************************************************************************)
(* Fixed-width unsigned integers wider than the checker's: a uintN is the   *)
(* sequence of its N/8 bytes, least significant first (digit i is bits      *)
(* 8(i-1) .. 8i-1 of the value).                                            *)
(***************************************************************************)
\* uintN(v) of a small value v: its n little-endian bytes
RECURSIVE ToWord(_, _)
ToWord(v, n) == IF n = 0 THEN <<>> ELSE <<v % 256>> \o ToWord(v \div 256, n - 1)

\* w * k for a small k, as a word two bytes wider than w
RECURSIVE WordMulFrom(_, _, _, _)
WordMulFrom(w, k, i, carry) ==
    IF i > Len(w)
    THEN <<carry % 256, carry \div 256>>
    ELSE LET t == w[i] * k + carry
         IN  <<t % 256>> \o WordMulFrom(w, k, i + 1, t \div 256)
WordMul(w, k) == WordMulFrom(w, k, 1, 0)

\* floor(w / k) for a small k > 0, as a word as wide as w
RECURSIVE WordDivFrom(_, _, _, _)
WordDivFrom(w, k, i, rem) ==
    IF i = 0 THEN <<>>
    ELSE LET t == rem * 256 + w[i]
         IN  WordDivFrom(w, k, i - 1, t % k) \o <<t \div k>>
WordDiv(w, k) == WordDivFrom(w, k, Len(w), 0)

\* w > v for a small v < 256
WordGreater(w, v) == w[1] > v \/ \E i \in 2 .. Len(w) : w[i] # 0

(***************************************************************************)
(* Oracle, the hybrid registry: manual updates and proof-gated updates.    *)
(***************************************************************************)
\* the verifier contract setVerifier is given
VERIFIER == "verifier"
\* image ids (guest program hashes)
ImageIds == {"img1", "img2"}

\* a | b on two bytes, bit by bit
RECURSIVE ByteOr(_, _)
ByteOr(a, b) ==
    IF a = 0 THEN b
    ELSE IF b = 0 THEN a
    ELSE (IF a % 2 = 1 \/ b % 2 = 1 THEN 1 ELSE 0)
             + 2 * ByteOr(a \div 2, b \div 2)

\* value | shifted on two words of the same width
WordOr(value, shifted) == [k \in 1 .. Len(value) |-> ByteOr(value[k], shifted[k])]

\* uintN(uint8(byte)) << (i * 8): the byte widened to n bytes and moved up
\* by i whole bytes, what leaves the width being dropped
WordOfByteShifted(byte, i, n) == [k \in 1 .. n |-> IF k = i + 1 THEN byte ELSE 0]

\* readUintLE taking the bytes most significant first
RECURSIVE readUintLE_bigEndianFrom(_, _, _, _, _)
readUintLE_bigEndianFrom(data, offset, n, i, value) ==
    IF i = n THEN value
    ELSE readUintLE_bigEndianFrom(data, offset, n, i + 1,
             WordOr(value, WordOfByteShifted(data[offset + n - i], i, n)))
readUintLE_bigEndian(data, offset, n) ==
    readUintLE_bigEndianFrom(data, offset, n, 0, [k \in 1 .. n |-> 0])

\* the loop of _readUint64LE / _readUint128LE from iteration i on:
\* value |= uintN(uint8(data[offset + i])) << (i * 8)
\* (data[offset + i] of the code is the element offset + i + 1 of the sequence)
RECURSIVE readUintLEFrom(_, _, _, _, _)
readUintLEFrom(data, offset, n, i, value) ==
    IF i = n THEN value
    ELSE readUintLEFrom(data, offset, n, i + 1,
             WordOr(value, WordOfByteShifted(data[offset + i + 1], i, n)))

\* _readUint64LE(data, offset) / _readUint128LE(data, offset)
readUintLE(data, offset, n) ==
    readUintLEFrom(data, offset, n, 0, [k \in 1 .. n |-> 0])
readUint64LE(data, offset) == readUintLE(data, offset, 8)
readUint128LE(data, offset) == readUintLE(data, offset, 16)

\* sha256(journal): collision-free, so the journal stands for its digest
sha256(journal) == <<"sha256", journal>>

\* IRiscZeroVerifier.verify(seal, imageId, journalDigest): a seal is a
\* receipt for one image id and one journal, or bytes that are no receipt.
\* "ok", "Error" (a revert with a reason string) or "revert" (any other)
verify(seal, imageId, journalDigest) ==
    IF seal.kind = "garbage" THEN "revert"
    ELSE IF seal.imageId = imageId /\ sha256(seal.journal) = journalDigest THEN "ok"
    ELSE "Error"

\* scoreOutOf100 without the cap at 100: the low 16 bits of the quotient
scoreOutOf100_uncapped(safetyScoreBP) ==
    LET q == WordDiv(WordMul(safetyScoreBP, 100), 10000)
    IN  q[1] + 256 * q[2]

\* scoreOutOf100 with the product taken in the 64 bits of safetyScoreBP
\* instead of uint256
scoreOutOf100_in64Bits(safetyScoreBP) ==
    LET q == WordDiv(SubSeq(WordMul(safetyScoreBP, 100), 1, 8), 10000)
    IN  IF WordGreater(q, 100) THEN 100 ELSE q[1]

\* the score updateScoreWithProof stores for a journal's basis points
\* (uint256(safetyScoreBP) * 100) / 10000, capped at 100
scoreOutOf100(safetyScoreBP) ==
    LET q == WordDiv(WordMul(safetyScoreBP, 100), 10000)
    IN  IF WordGreater(q, 100) THEN 100 ELSE q[1]

\* addProtocol(protocol, initialScore) by `sender`
addProtocolError(sender, protocol, initialScore) ==
    IF sender # OWNER THEN "OwnableUnauthorizedAccount"
    ELSE IF protocol = ZERO THEN "Invalid protocol address"
    ELSE IF isProtocolRegistered[protocol] THEN "Protocol already registered"
    ELSE IF ~(initialScore <= 100) THEN "Score must be <= 100"
    ELSE "ok"

addProtocol(sender, protocol, initialScore) ==
    /\ Idle
    /\ IF addProtocolError(sender, protocol, initialScore) # "ok"
       THEN UNCHANGED vars
       ELSE /\ isProtocolRegistered' = [isProtocolRegistered EXCEPT ![protocol] = TRUE]
            /\ safetyScores' = [safetyScores EXCEPT ![protocol] = initialScore]
            /\ UNCHANGED <<call, premiumQuotes, blockTimestamp, zkVars, ledgerVars, equinoxProtocol,
                           vaultStatus, engineVars>>

\* updateScore(protocol, newScore) by `sender`
updateScoreError(sender, protocol, newScore) ==
    IF sender # OWNER THEN "OwnableUnauthorizedAccount"
    ELSE IF ~isProtocolRegistered[protocol] THEN "Protocol not registered"
    ELSE IF ~(newScore <= 100) THEN "Score must be <= 100"
    ELSE "ok"

\* updateScore counting as a verification
updateScore_countsVerification(sender, protocol, newScore) ==
    /\ Idle
    /\ IF updateScoreError(sender, protocol, newScore) # "ok"
       THEN UNCHANGED vars
       ELSE /\ safetyScores' = [safetyScores EXCEPT ![protocol] = newScore]
            /\ protocolMetrics' = [protocolMetrics EXCEPT
                   ![protocol].lastUpdateTime = ToWord(blockTimestamp, 8),
                   ![protocol].zkVerificationCount =
                       Min(@ + 1, MaxVerifications)]
            /\ UNCHANGED <<call, premiumQuotes, blockTimestamp, isProtocolRegistered, riscZeroVerifier,
                           protocolImageIds, ledgerVars, equinoxProtocol,
                           vaultStatus, engineVars>>

updateScore(sender, protocol, newScore) ==
    /\ Idle
    /\ IF updateScoreError(sender, protocol, newScore) # "ok"
       THEN UNCHANGED vars
       ELSE /\ safetyScores' = [safetyScores EXCEPT ![protocol] = newScore]
            /\ protocolMetrics' = [protocolMetrics EXCEPT
                   ![protocol].lastUpdateTime = ToWord(blockTimestamp, 8)]
            /\ UNCHANGED <<call, premiumQuotes, blockTimestamp, isProtocolRegistered, riscZeroVerifier,
                           protocolImageIds, ledgerVars, equinoxProtocol,
                           vaultStatus, engineVars>>

\* setVerifier(_verifier) by `sender`
setVerifierError(sender, verifier) ==
    IF sender # OWNER THEN "OwnableUnauthorizedAccount"
    ELSE IF verifier = ZERO THEN "Invalid verifier"
    ELSE "ok"

setVerifier(sender, verifier) ==
    /\ Idle
    /\ IF setVerifierError(sender, verifier) # "ok"
       THEN UNCHANGED vars
       ELSE /\ riscZeroVerifier' = verifier
            /\ UNCHANGED <<call, premiumQuotes, blockTimestamp, scoreVars, protocolImageIds,
                           protocolMetrics, ledgerVars, equinoxProtocol,
                           vaultStatus, engineVars>>

\* setImageId(protocol, imageId) by `sender`
setImageIdError(sender, protocol, imageId) ==
    IF sender # OWNER THEN "OwnableUnauthorizedAccount"
    ELSE IF ~isProtocolRegistered[protocol] THEN "Protocol not registered"
    ELSE IF imageId = ZERO THEN "Invalid image ID"
    ELSE "ok"

setImageId(sender, protocol, imageId) ==
    /\ Idle
    /\ IF setImageIdError(sender, protocol, imageId) # "ok"
       THEN UNCHANGED vars
       ELSE /\ protocolImageIds' = [protocolImageIds EXCEPT ![protocol] = imageId]
            /\ UNCHANGED <<call, premiumQuotes, blockTimestamp, scoreVars, riscZeroVerifier,
                           protocolMetrics, ledgerVars, equinoxProtocol,
                           vaultStatus, engineVars>>

\* updateScoreWithProofRequires without the check of the journal's length
updateScoreWithProofRequires_anyLength(protocol, journal) ==
    IF ~isProtocolRegistered[protocol] THEN "Protocol not registered"
    ELSE IF riscZeroVerifier = ZERO THEN "Verifier not configured"
    ELSE IF protocolImageIds[protocol] = ZERO THEN "Image ID not set for protocol"
    ELSE "ok"

\* the requires of updateScoreWithProof, made before the verifier is called:
\* the error of the first that fails, "ok" when the call reaches the verifier
updateScoreWithProofRequires(protocol, journal) ==
    IF ~isProtocolRegistered[protocol] THEN "Protocol not registered"
    ELSE IF riscZeroVerifier = ZERO THEN "Verifier not configured"
    ELSE IF Len(journal) # JOURNAL_LENGTH THEN "Invalid journal length"
    ELSE IF protocolImageIds[protocol] = ZERO THEN "Image ID not set for protocol"
    ELSE "ok"

\* verificationOutcome whose bare catch block swallows the failure
verificationOutcome_swallowed(v) ==
    IF v = "ok" THEN "ok"
    ELSE IF v = "Error" THEN "ZK verification failed: reason"
    ELSE "ok"

\* what updateScoreWithProof does with the verifier's answer: the try block
\* on success, a revert from either catch block
verificationOutcome(v) ==
    IF v = "ok" THEN "ok"
    ELSE IF v = "Error" THEN "ZK verification failed: reason"
    ELSE "ZK verification failed"

\* updateScoreWithProofError verifying against the image id bound to any
\* protocol
updateScoreWithProofError_anyBoundProgram(protocol, journal, seal) ==
    IF updateScoreWithProofRequires(protocol, journal) # "ok"
    THEN updateScoreWithProofRequires(protocol, journal)
    ELSE IF \E q \in Protocols :
                verify(seal, protocolImageIds[q], sha256(journal)) = "ok"
         THEN "ok"
         ELSE verificationOutcome(
                  verify(seal, protocolImageIds[protocol], sha256(journal)))

\* updateScoreWithProofError that rejects a journal carrying the timestamp
\* already stored for the protocol
updateScoreWithProofError_replayRejected(protocol, journal, seal) ==
    IF updateScoreWithProofRequires(protocol, journal) # "ok"
    THEN updateScoreWithProofRequires(protocol, journal)
    ELSE IF readUint64LE(journal, 40) = protocolMetrics[protocol].lastUpdateTime
    THEN "Attestation not newer"
    ELSE verificationOutcome(
             verify(seal, protocolImageIds[protocol], sha256(journal)))

\* the error updateScoreWithProof(protocol, journal, seal) reverts with
updateScoreWithProofError(protocol, journal, seal) ==
    IF updateScoreWithProofRequires(protocol, journal) # "ok"
    THEN updateScoreWithProofRequires(protocol, journal)
    ELSE verificationOutcome(
             verify(seal, protocolImageIds[protocol], sha256(journal)))

\* updateScoreWithProof(protocol, journal, seal), by anyone
updateScoreWithProof(protocol, journal, seal) ==
    /\ Idle
    /\ protocolMetrics[protocol].zkVerificationCount < MaxVerifications
    /\ IF updateScoreWithProofError(protocol, journal, seal) # "ok"
       THEN UNCHANGED vars
       ELSE LET safetyScoreBP    == readUint64LE(journal, 0)
                totalAssetsZK    == readUint128LE(journal, 8)
                totalLiabilities == readUint128LE(journal, 24)
                timestamp        == readUint64LE(journal, 40)
            IN  /\ safetyScores' = [safetyScores EXCEPT
                       ![protocol] = scoreOutOf100(safetyScoreBP)]
                /\ protocolMetrics' = [protocolMetrics EXCEPT ![protocol] =
                       [totalAssets |-> totalAssetsZK,
                        totalLiabilities |-> totalLiabilities,
                        lastUpdateTime |-> timestamp,
                        zkVerificationCount |-> @.zkVerificationCount + 1]]
                /\ UNCHANGED <<call, premiumQuotes, blockTimestamp, isProtocolRegistered,
                               riscZeroVerifier, protocolImageIds, ledgerVars,
                               equinoxProtocol, vaultStatus, engineVars>>

(***************************************************************************)
(* Time.                                                                   *)
(***************************************************************************)
(***************************************************************************)
(* buyPolicy and claimPayout statement by statement.  call.at is the last  *)
(* statement the running call has executed; a revert restores the state at *)
(* the call's entry and ends the call.                                     *)
(***************************************************************************)
\* a revert that keeps the policy record and the claim-token balances a
\* failed call has written
stateAfterRevert_recordKept(entry) ==
    [entry EXCEPT !.policies = policies, !.balanceOf = balanceOf]

\* the storage and balances after a revert: those at the call's entry
stateAfterRevert(entry) == entry

\* the running call reverts
revertCall ==
    LET e == stateAfterRevert(call.entry)
    IN  /\ usdcBalance' = e.usdcBalance
        /\ shareBalance' = e.shareBalance
        /\ totalSupply' = e.totalSupply
        /\ nextPolicyId' = e.nextPolicyId
        /\ policies' = e.policies
        /\ totalInsuredPerProtocol' = e.totalInsuredPerProtocol
        /\ balanceOf' = e.balanceOf
        /\ payoutLog' = e.payoutLog
        /\ engineStatus' = NOT_ENTERED
        /\ vaultStatus' = NOT_ENTERED
        /\ call' = NoCall
        /\ UNCHANGED <<premiumQuotes, blockTimestamp, oracleVars, equinoxProtocol>>

\* the running call moves to statement `at`
callAt(at) == call' = [call EXCEPT !.at = at]

\* buyPolicy is entered: the lock, the validations, the premium computed
buyPolicyEnter(buyer, protocol, strikeScore, durationInDays, payoutAmount) ==
    /\ Idle
    /\ call = NoCall
    /\ nextPolicyId < MaxPolicies
    /\ IF buyPolicyRequires(protocol, strikeScore, durationInDays,
                            payoutAmount) # "ok"
       THEN UNCHANGED vars
       ELSE /\ engineStatus' = nonReentrantBefore(engineStatus)
            /\ call' = [NoCall EXCEPT
                   !.op = "buyPolicy", !.at = "validated", !.sender = buyer,
                   !.protocol = protocol, !.strikeScore = strikeScore,
                   !.durationInDays = durationInDays,
                   !.payoutAmount = payoutAmount,
                   !.premium = calculatePremium(strikeScore, durationInDays,
                                                payoutAmount),
                   !.entry = Snapshot]
            /\ UNCHANGED <<premiumQuotes, blockTimestamp, oracleVars, ledgerVars,
                           equinoxProtocol, vaultStatus, nextPolicyId, policies,
                           totalInsuredPerProtocol, balanceOf, payoutLog>>

\* usdc.safeTransferFrom(msg.sender, address(this), premium)
buyPolicyPull ==
    /\ call.op = "buyPolicy" /\ call.at = "validated"
    /\ LET r == usdcTransfer(Ledger, call.sender, ENGINE, call.premium)
       IN  IF r.err # "ok" THEN revertCall
           ELSE /\ SetLedger(r.l)
                /\ callAt("pulled")
                /\ UNCHANGED <<premiumQuotes, blockTimestamp, oracleVars,
                               equinoxProtocol, vaultStatus, engineVars>>

\* usdc.approve(address(vault), premium); vault.depositPremium(premium)
buyPolicyDeposit ==
    /\ call.op = "buyPolicy" /\ call.at = "pulled"
    /\ LET r == depositPremiumCall(Ledger, vaultStatus, ENGINE, call.premium)
       IN  IF r.err # "ok" THEN revertCall
           ELSE /\ SetLedger(r.l)
                /\ callAt("deposited")
                /\ UNCHANGED <<premiumQuotes, blockTimestamp, oracleVars,
                               equinoxProtocol, vaultStatus, engineVars>>

\* policyId = nextPolicyId++
buyPolicyAllocate ==
    /\ call.op = "buyPolicy" /\ call.at = "deposited"
    /\ nextPolicyId' = policyIdAfter(nextPolicyId)
    /\ call' = [call EXCEPT !.at = "allocated", !.policyId = nextPolicyId]
    /\ UNCHANGED <<premiumQuotes, blockTimestamp, oracleVars, ledgerVars,
                   equinoxProtocol, vaultStatus, policies,
                   totalInsuredPerProtocol, balanceOf, engineStatus, payoutLog>>

\* policies[policyId] = PolicyData{...}
buyPolicyStore ==
    /\ call.op = "buyPolicy" /\ call.at = "allocated"
    /\ policies' = [policies EXCEPT ![call.policyId] =
           newPolicy(call.sender, call.protocol, call.strikeScore,
                     call.durationInDays, call.payoutAmount)]
    /\ callAt("stored")
    /\ UNCHANGED <<premiumQuotes, blockTimestamp, oracleVars, ledgerVars,
                   equinoxProtocol, vaultStatus, nextPolicyId,
                   totalInsuredPerProtocol, balanceOf, engineStatus, payoutLog>>

\* totalInsuredPerProtocol[protocol] += payoutAmount
buyPolicyInsure ==
    /\ call.op = "buyPolicy" /\ call.at = "stored"
    /\ totalInsuredPerProtocol' =
           insuredAfterPurchase(call.protocol, call.payoutAmount)
    /\ callAt("insured")
    /\ UNCHANGED <<premiumQuotes, blockTimestamp, oracleVars, ledgerVars,
                   equinoxProtocol, vaultStatus, nextPolicyId, policies,
                   balanceOf, engineStatus, payoutLog>>

\* _mint(msg.sender, policyId, 1, ""): the balance is written, then the
\* buyer's acceptance callback runs
buyPolicyMint ==
    /\ call.op = "buyPolicy" /\ call.at = "insured"
    /\ balanceOf' = mintClaimToken(call.sender, call.policyId)
    /\ callAt("minted")
    /\ UNCHANGED <<premiumQuotes, blockTimestamp, oracleVars, ledgerVars,
                   equinoxProtocol, vaultStatus, nextPolicyId, policies,
                   totalInsuredPerProtocol, engineStatus, payoutLog>>

\* the buyer's acceptance callback rejects the claim token
buyPolicyMintRejected ==
    /\ call.op = "buyPolicy" /\ call.at = "minted"
    /\ revertCall

\* claimPayoutStepAfter with the token burned and the withdrawal made before
\* the flag is set and the aggregate lowered
claimPayoutStepAfter_burnFirst(at) ==
    CASE at = "validated" -> "burned"
      [] at = "burned" -> "withdrawn"
      [] at = "withdrawn" -> "marked"
      [] at = "marked" -> "decremented"
      [] OTHER -> "returned"

\* the statement of claimPayout that follows statement `at`
claimPayoutStepAfter(at) ==
    CASE at = "validated" -> "marked"
      [] at = "marked" -> "decremented"
      [] at = "decremented" -> "burned"
      [] at = "burned" -> "withdrawn"
      [] OTHER -> "returned"

\* claimPayout is entered: the lock and the checks
claimPayoutEnter(claimer, policyId) ==
    /\ Idle
    /\ call = NoCall
    /\ IF claimPayoutCheck(claimer, policyId) # "ok"
       THEN UNCHANGED vars
       ELSE /\ engineStatus' = nonReentrantBefore(engineStatus)
            /\ call' = [NoCall EXCEPT
                   !.op = "claimPayout", !.at = "validated",
                   !.sender = claimer, !.policyId = policyId,
                   !.protocol = policies[policyId].protocol,
                   !.payoutAmount = policies[policyId].payoutAmount,
                   !.entry = Snapshot]
            /\ UNCHANGED <<premiumQuotes, blockTimestamp, oracleVars, ledgerVars,
                           equinoxProtocol, vaultStatus, nextPolicyId, policies,
                           totalInsuredPerProtocol, balanceOf, payoutLog>>

\* policy.claimed = true
claimPayoutMark ==
    /\ call.op = "claimPayout" /\ claimPayoutStepAfter(call.at) = "marked"
    /\ policies' = markClaimed(call.policyId)
    /\ callAt("marked")
    /\ UNCHANGED <<premiumQuotes, blockTimestamp, oracleVars, ledgerVars,
                   equinoxProtocol, vaultStatus, nextPolicyId,
                   totalInsuredPerProtocol, balanceOf, engineStatus, payoutLog>>

\* totalInsuredPerProtocol[policy.protocol] -= policy.payoutAmount, checked
claimPayoutDecrement ==
    /\ call.op = "claimPayout" /\ claimPayoutStepAfter(call.at) = "decremented"
    /\ IF totalInsuredPerProtocol[call.protocol] < call.payoutAmount
       THEN revertCall
       ELSE /\ totalInsuredPerProtocol' = insuredAfterClaim(call.policyId)
            /\ callAt("decremented")
            /\ UNCHANGED <<premiumQuotes, blockTimestamp, oracleVars, ledgerVars,
                           equinoxProtocol, vaultStatus, nextPolicyId, policies,
                           balanceOf, engineStatus, payoutLog>>

\* _burn(msg.sender, policyId, 1)
claimPayoutBurn ==
    /\ call.op = "claimPayout" /\ claimPayoutStepAfter(call.at) = "burned"
    /\ IF balanceOf[call.sender][call.policyId] < 1
       THEN revertCall
       ELSE /\ balanceOf' = burnClaimToken(call.sender, call.policyId)
            /\ callAt("burned")
            /\ UNCHANGED <<premiumQuotes, blockTimestamp, oracleVars, ledgerVars,
                           equinoxProtocol, vaultStatus, nextPolicyId, policies,
                           totalInsuredPerProtocol, engineStatus, payoutLog>>

\* vault.withdrawForPayout(msg.sender, policy.payoutAmount): the shares are
\* burned, then the transfer to the claimer runs under both locks
claimPayoutVaultWithdraw ==
    /\ call.op = "claimPayout" /\ claimPayoutStepAfter(call.at) = "withdrawn"
    /\ LET r == withdrawForPayoutCall(Ledger, vaultStatus, equinoxProtocol,
                                      ENGINE, call.sender, call.payoutAmount)
       IN  IF r.err # "ok" THEN revertCall
           ELSE /\ SetLedger(r.l)
                /\ payoutLog' = [payoutLog EXCEPT ![call.policyId] =
                                     Append(@, call.payoutAmount)]
                /\ vaultStatus' = nonReentrantBefore(vaultStatus)
                /\ callAt("withdrawn")
                /\ UNCHANGED <<premiumQuotes, blockTimestamp, oracleVars,
                               equinoxProtocol, nextPolicyId, policies,
                               totalInsuredPerProtocol, balanceOf, engineStatus>>

\* the running call has executed its last statement and returns
callReturn ==
    /\ \/ call.op = "buyPolicy" /\ call.at = "minted"
       \/ call.op = "claimPayout" /\ claimPayoutStepAfter(call.at) = "returned"
    /\ engineStatus' = nonReentrantAfter(engineStatus)
    /\ vaultStatus' = nonReentrantAfter(vaultStatus)
    /\ call' = NoCall
    /\ UNCHANGED <<premiumQuotes, blockTimestamp, oracleVars, ledgerVars,
                   equinoxProtocol, nextPolicyId, policies,
                   totalInsuredPerProtocol, balanceOf, payoutLog>>

\* a day passes between two transactions
advanceTime ==
    /\ Idle
    /\ blockTimestamp < MaxDays * DAY
    /\ blockTimestamp' = blockTimestamp + DAY
    /\ UNCHANGED <<call, premiumQuotes, oracleVars, ledgerVars, equinoxProtocol,
                   vaultStatus, engineVars>>

(***************************************************************************)
(* The deployed system (DeployScript.run): the contracts constructed and   *)
(* the engine bound to the vault; nothing registered, no policy issued.    *)
(***************************************************************************)
Constructed ==
    /\ call = NoCall
    /\ blockTimestamp = 0
    /\ safetyScores = [p \in Protocols |-> 0]
    /\ isProtocolRegistered = [p \in Protocols |-> FALSE]
    /\ riscZeroVerifier = ZERO
    /\ protocolImageIds = [p \in Protocols |-> ZERO]
    /\ protocolMetrics = [p \in Protocols |-> NoMetrics]
    /\ shareBalance = [h \in Holders |-> 0]
    /\ totalSupply = 0
    /\ vaultStatus = NOT_ENTERED
    /\ nextPolicyId = 0
    /\ policies = [id \in PolicyIds |-> NoPolicy]
    /\ totalInsuredPerProtocol = [p \in Protocols |-> 0]
    /\ balanceOf = [u \in Users |-> [id \in PolicyIds |-> 0]]
    /\ engineStatus = NOT_ENTERED
    /\ payoutLog = [id \in PolicyIds |-> <<>>]

\* vault.setDeRiskProtocol(address(equinox)), the script's last step
Deployed ==
    /\ Constructed
    /\ usdcBalance = [h \in Holders |->
                         IF h = FUNDED_USER THEN InitialFunds ELSE 0]
    /\ equinoxProtocol = ENGINE

Init ==
    /\ Deployed
    /\ premiumQuotes = NoQuotes

Next ==
    \/ \E b \in Users, p \in Protocols, s \in StrikeInputs,
          d \in DurationInputs, a \in PayoutInputs : buyPolicy(b, p, s, d, a)
    \/ \E c \in Users, id \in PolicyIds : claimPayout(c, id)
    \/ engineReturn
    \/ \E f \in Users, t \in Users \cup {ZERO}, id \in PolicyIds :
          f # t /\ safeTransferFrom(f, t, id)
    \/ \E u \in Users, t \in Users, a \in AmountInputs : withdrawForPayout(u, t, a)
    \/ \E u \in Users, a \in AmountInputs : transferToVault(u, a)
    \/ \E c \in Callers, p \in Protocols, s \in ScoreInputs :
          DeRiskOracle_addProtocol(c, p, s)
    \/ \E c \in Callers, p \in Protocols, s \in ScoreInputs :
          DeRiskOracle_updateScore(c, p, s)
    \/ advanceTime

Spec == Init /\ [][Next]_vars

(***************************************************************************)
(* The hybrid Oracle on its own: every way a score is written.             *)
(***************************************************************************)
\* the fields of the journals submitted: basis points 4999, and those of
\* 100% or more: 10000, 10100, 2^62 (100 times which is a multiple of 2^64)
\* and 2^64 - 1; assets and liabilities with every byte different
FullBasisPointInputs ==
    {ToWord(10000, 8), ToWord(10100, 8),
     <<0, 0, 0, 0, 0, 0, 0, 64>>, [i \in 1 .. 8 |-> 255]}
BasisPointInputs == {ToWord(4999, 8)} \cup FullBasisPointInputs
AssetsInput == [i \in 1 .. 16 |-> i]
LiabilitiesInput == [i \in 1 .. 16 |-> 100 + i]
TimestampInputs == {ToWord(DAY, 8)}

WellFormedJournals ==
    {bp \o AssetsInput \o LiabilitiesInput \o ts :
        bp \in BasisPointInputs, ts \in TimestampInputs}
\* a journal of 47 bytes and one of 49
MalformedJournals ==
    {[i \in 1 .. (JOURNAL_LENGTH - 1) |-> 0], [i \in 1 .. (JOURNAL_LENGTH + 1) |-> 0]}
JournalInputs == WellFormedJournals \cup MalformedJournals

\* a receipt of the first image id for every journal, a receipt of the
\* second image id for each journal of 100% or more, and bytes that are no
\* receipt
SealInputs ==
    {[kind |-> "receipt", imageId |-> "img1", journal |-> j] :
        j \in WellFormedJournals}
    \cup {[kind |-> "receipt", imageId |-> "img2",
           journal |-> bp \o AssetsInput \o LiabilitiesInput \o ts] :
        bp \in FullBasisPointInputs, ts \in TimestampInputs}
    \cup {[kind |-> "garbage", imageId |-> ZERO, journal |-> <<>>]}

\* scores offered to the hybrid Oracle's manual entry points
OracleScoreInputs == {0, 100, 101}

OracleNext ==
    \/ \E c \in Callers, p \in Protocols, s \in OracleScoreInputs :
          addProtocol(c, p, s)
    \/ \E c \in Callers, p \in Protocols, s \in OracleScoreInputs :
          updateScore(c, p, s)
    \/ \E c \in Callers, v \in {ZERO, VERIFIER} : setVerifier(c, v)
    \/ \E c \in Callers, p \in Protocols, i \in ImageIds \cup {ZERO} :
          setImageId(c, p, i)
    \/ \E p \in Protocols, j \in JournalInputs, z \in SealInputs :
          updateScoreWithProof(p, j, z)
    \/ advanceTime

SpecOracle == Init /\ [][OracleNext]_vars

(***************************************************************************)
(* Properties.                                                             *)
(***************************************************************************)
\* claim-token units of a policy id in existence, over all holders
tokenUnits(policyId) == SumOver(Users, [u \in Users |-> balanceOf[u][policyId]])

\* the score claimPayout reads for a policy, and whether it is below the strike
currentScore(policyId) == getScore(policies[policyId].protocol)
StrikeBreached(policyId) == currentScore(policyId) < policies[policyId].strikeScore

\* `claimer` calls claimPayout(policyId) as a transaction of its own and
\* meets every requirement but the strike condition
EligibleButForStrike(claimer, policyId) ==
    /\ Idle
    /\ policies[policyId].exists
    /\ ~policies[policyId].claimed
    /\ blockTimestamp < policies[policyId].expiry
    /\ balanceOf[claimer][policyId] >= 1

\* sum of payoutAmount over the policies in `ids`
payoutSum(ids) == SumOver(ids, [id \in PolicyIds |-> policies[id].payoutAmount])

\* C1: no double payout.  In every reachable state the vault has paid out at
\* most once for each policy id, every such payout was exactly the policy's
\* stored payoutAmount, and the claimed flag is true exactly for the ids paid
\* once (so the flag went false -> true once and never back).
C1_NoDoublePayout ==
    \A id \in PolicyIds :
        /\ Len(payoutLog[id]) <= 1
        /\ policies[id].claimed <=> Len(payoutLog[id]) = 1
        /\ \A i \in 1 .. Len(payoutLog[id]) :
               payoutLog[id][i] = policies[id].payoutAmount

\* a policy has been claimed and paid, and the claim call has returned
C1_Witness ==
    \E id \in PolicyIds :
        /\ Idle
        /\ policies[id].claimed
        /\ payoutLog[id] = <<policies[id].payoutAmount>>

\* C2: after a successful claimPayout(id), every later claimPayout(id), by
\* any caller, fails with PolicyAlreadyClaimed.
C2_LaterClaimFailsAlreadyClaimed ==
    \A id \in PolicyIds, c \in Users :
        (Idle /\ policies[id].claimed) =>
            claimPayoutError(c, id) = "DeRiskProtocol__PolicyAlreadyClaimed"

\* C3: no claim before eligibility.  A policy is never claimed, and nothing
\* is paid for it, in a step taken from a state where the score is >= its
\* strike; claimPayout called in such a state changes nothing (no step that
\* changes a variable is a step of that call); and a claim that meets every
\* other requirement fails with StrikeNotBreached (score == strike included).
C3_NoClaimBeforeEligibility ==
    /\ [](\A id \in PolicyIds, c \in Users :
            (EligibleButForStrike(c, id) /\ ~StrikeBreached(id)) =>
                claimPayoutError(c, id) = "DeRiskProtocol__StrikeNotBreached")
    /\ [][\A id \in PolicyIds :
            (policies[id].exists /\ ~StrikeBreached(id)) =>
                /\ policies'[id].claimed = policies[id].claimed
                /\ payoutLog'[id] = payoutLog[id]
                /\ \A c \in Users : ~claimPayout(c, id)]_vars

\* an otherwise eligible holder faces a score equal to the strike
C3_Witness ==
    \E id \in PolicyIds, c \in Users :
        /\ EligibleButForStrike(c, id)
        /\ currentScore(id) = policies[id].strikeScore

\* C4: an eligible claim succeeds.  Whenever the policy exists, is unclaimed,
\* now < expiry, the caller holds its claim token and the score is below the
\* strike, claimPayout(id) by that caller goes through.
C4_EligibleClaimSucceeds ==
    \A id \in PolicyIds, c \in Users :
        (EligibleButForStrike(c, id) /\ StrikeBreached(id)) =>
            claimPayoutError(c, id) = "ok"

\* C5: a successful payout moves exactly the requested amount.  In every
\* step that claims a policy, the caller who held the claim token loses it
\* (no unit of the id is left), and the policy's stored payoutAmount leaves
\* the vault's pooled assets and arrives in that caller's balance, nobody
\* else's balance changing.
C5_PayoutMovesExactAmount ==
    [][\A id \in PolicyIds :
          (~policies[id].claimed /\ policies'[id].claimed) =>
              \E c \in Users :
                  /\ balanceOf[c][id] = 1
                  /\ balanceOf'[c][id] = 0
                  /\ tokenUnits(id)' = 0
                  /\ usdcBalance'[c] = usdcBalance[c] + policies[id].payoutAmount
                  /\ usdcBalance'[VAULT] =
                         usdcBalance[VAULT] - policies[id].payoutAmount
                  /\ \A h \in Holders \ {c, VAULT} :
                         usdcBalance'[h] = usdcBalance[h]]_vars

\* a policy bought by one user was claimed by another, who was paid
C5_Witness ==
    \E id \in PolicyIds, c \in Users :
        /\ policies[id].claimed
        /\ policies[id].holder # c
        /\ usdcBalance[c] = policies[id].payoutAmount
        /\ tokenUnits(id) = 0

\* C6: expiry is evaluated lazily and is final.  Whenever now >= expiry
\* (now == expiry included), claimPayout called by the holder of the claim
\* token fails with PolicyExpired whatever the score is, and changes nothing
\* (no step that changes a variable is a step of that call).
C6_ExpiredClaimFails ==
    /\ [](\A id \in PolicyIds, c \in Users :
            (Idle /\ balanceOf[c][id] >= 1
                  /\ blockTimestamp >= policies[id].expiry) =>
                claimPayoutError(c, id) = "DeRiskProtocol__PolicyExpired")
    /\ [][\A id \in PolicyIds, c \in Users :
            (balanceOf[c][id] >= 1 /\ blockTimestamp >= policies[id].expiry)
                => ~claimPayout(c, id)]_vars

\* the holder of an unclaimed policy whose strike is breached, at the very
\* instant of its expiry
C6_Witness ==
    \E id \in PolicyIds, c \in Users :
        /\ Idle
        /\ balanceOf[c][id] >= 1
        /\ ~policies[id].claimed
        /\ blockTimestamp = policies[id].expiry
        /\ StrikeBreached(id)

\* the arguments of buyPolicy pass the checks made before the vault's
\* balance is looked at
PassesInputValidation(protocol, strikeScore, durationInDays, payoutAmount) ==
    /\ isProtocolRegistered[protocol]
    /\ strikeScore >= MIN_STRIKE_SCORE /\ strikeScore <= MAX_STRIKE_SCORE
    /\ durationInDays >= MIN_DURATION_DAYS /\ durationInDays <= MAX_DURATION_DAYS
    /\ payoutAmount # 0

C8_ScoreWithinRange ==
    \A p \in Protocols :
        isProtocolRegistered[p] =>
            (safetyScores[p] \in Nat /\ safetyScores[p] <= 100)

\* a score written by a verified attestation (the timestamp stored is the
\* journal's) whose basis points convert to 100 or more
C8_Witness ==
    \E p \in Protocols :
        /\ isProtocolRegistered[p]
        /\ protocolMetrics[p].zkVerificationCount >= 1
        /\ protocolMetrics[p].lastUpdateTime \in TimestampInputs
        /\ protocolMetrics[p].totalAssets = AssetsInput
        /\ safetyScores[p] = 100

\* the policies of a protocol that are not claimed, and those of them that
\* are not expired either
unclaimedPolicies(protocol) ==
    {id \in PolicyIds : /\ policies[id].exists
                        /\ policies[id].protocol = protocol
                        /\ ~policies[id].claimed}
livePolicies(protocol) ==
    {id \in unclaimedPolicies(protocol) : blockTimestamp < policies[id].expiry}

\* C9 as stated: totalInsuredPerProtocol[s] is the sum of payoutAmount over
\* the policies of s that are neither claimed nor expired.
C9_InsuredIsSumOverLive ==
    \A p \in Protocols :
        totalInsuredPerProtocol[p] = payoutSum(livePolicies(p))

\* C9: totalInsuredPerProtocol[s] is the sum of payoutAmount over the
\* policies of s that are not claimed, expired or not.
C9_InsuredIsSumOverUnclaimed ==
    \A p \in Protocols :
        totalInsuredPerProtocol[p] = payoutSum(unclaimedPolicies(p))

\* a protocol with an unclaimed policy past its expiry and a claimed one
C9_Witness ==
    \E p \in Protocols, id \in PolicyIds, other \in PolicyIds :
        /\ id \in unclaimedPolicies(p)
        /\ blockTimestamp >= policies[id].expiry
        /\ policies[other].protocol = p
        /\ policies[other].claimed
        /\ totalInsuredPerProtocol[p] = policies[id].payoutAmount

\* C10: for every policy id, the claim-token units in existence are exactly
\* 1 while the policy exists and is unclaimed, and exactly 0 before its
\* purchase and after its claim.
C10_OneClaimTokenUntilClaimed ==
    \A id \in PolicyIds :
        tokenUnits(id) =
            IF policies[id].exists /\ ~policies[id].claimed THEN 1 ELSE 0

\* one policy's token has moved to another user, another policy is claimed
C10_Witness ==
    \E id \in PolicyIds, other \in PolicyIds, c \in Users :
        /\ policies[id].exists /\ ~policies[id].claimed
        /\ policies[id].holder # c
        /\ balanceOf[c][id] = 1
        /\ policies[other].claimed
        /\ tokenUnits(other) = 0

\* one of the requirements updateScoreWithProof makes of its arguments and
\* of the configuration is not met
AttestationIllFormed(protocol, journal) ==
    \/ Len(journal) # JOURNAL_LENGTH
    \/ ~isProtocolRegistered[protocol]
    \/ riscZeroVerifier = ZERO
    \/ protocolImageIds[protocol] = ZERO

\* C11: updateScoreWithProof is rejected before the verifier is called, and
\* changes nothing (no step that changes a variable is a step of that call),
\* whenever the journal is not exactly 48 bytes, the protocol is not
\* registered, no verifier is configured or no image id is set for it.
C11_RejectedBeforeVerifier ==
    /\ [](\A p \in Protocols, j \in JournalInputs :
            AttestationIllFormed(p, j) =>
                /\ updateScoreWithProofRequires(p, j) # "ok"
                /\ \A z \in SealInputs :
                       updateScoreWithProofError(p, j, z) =
                           updateScoreWithProofRequires(p, j))
    /\ [][UNCHANGED vars \/
          \A p \in Protocols, j \in JournalInputs :
            AttestationIllFormed(p, j) =>
                \A z \in SealInputs : ~updateScoreWithProof(p, j, z)]_vars

\* a registered protocol with verifier and image id configured, so that only
\* the journal's length (47 or 49 bytes) stands between a call and the verifier
C11_Witness ==
    \E p \in Protocols :
        /\ isProtocolRegistered[p]
        /\ riscZeroVerifier # ZERO
        /\ protocolImageIds[p] # ZERO
        /\ protocolMetrics[p].zkVerificationCount < MaxVerifications
        /\ \E j \in MalformedJournals : AttestationIllFormed(p, j)

\* the call reaches the verifier
ReachesVerifier(protocol, journal) ==
    updateScoreWithProofRequires(protocol, journal) = "ok"

\* the verifier, once reached, does not accept
VerifierFails(protocol, journal, seal) ==
    verify(seal, protocolImageIds[protocol], sha256(journal)) # "ok"

\* C12: attestation updates fail closed.  If the verifier fails, with a
\* reason or in any other way, updateScoreWithProof reverts, and the score,
\* the metrics, the timestamp and the counter of the protocol (as every other
\* variable) are unchanged.
C12_FailsClosed ==
    /\ [](\A p \in Protocols, j \in JournalInputs :
            ReachesVerifier(p, j) =>
                \A z \in SealInputs :
                    VerifierFails(p, j, z) =>
                        updateScoreWithProofError(p, j, z) # "ok")
    /\ [][UNCHANGED vars \/
          \A p \in Protocols, j \in JournalInputs :
            ReachesVerifier(p, j) =>
                \A z \in SealInputs :
                    VerifierFails(p, j, z) => ~updateScoreWithProof(p, j, z)]_vars

\* a protocol updated once by a verified attestation, for which a receipt of
\* another image id and bytes that are no receipt now reach the verifier
C12_Witness ==
    \E p \in Protocols, j \in WellFormedJournals :
        /\ protocolMetrics[p].zkVerificationCount = 1
        /\ ReachesVerifier(p, j)
        /\ \E z \in SealInputs :
               z.kind = "receipt" /\ VerifierFails(p, j, z)
        /\ \E z \in SealInputs :
               z.kind = "garbage" /\ VerifierFails(p, j, z)

(***************************************************************************)
(* The premium formula on its own: two calls of calculatePremium with the  *)
(* same duration and payout, at strikes s1 <= s2.                          *)
(***************************************************************************)
\* strikes 0 .. 101: below, inside and above [1,100]
PremiumStrikeInputs == 0 .. (MAX_STRIKE_SCORE + 1)
\* a day, a month, the longest duration
PremiumDurationInputs == {MIN_DURATION_DAYS, 30, MAX_DURATION_DAYS}
\* the smallest unit, one unit of currency, and an amount with no round factor
PremiumPayoutInputs == {1, MIN_PREMIUM, 123456789}

PremiumInit ==
    /\ Deployed
    /\ \E s1 \in PremiumStrikeInputs, s2 \in PremiumStrikeInputs,
          d \in PremiumDurationInputs, a \in PremiumPayoutInputs :
          /\ s1 <= s2
          /\ premiumQuotes =
                 [strikeScore |-> <<s1, s2>>, durationInDays |-> d,
                  payoutAmount |-> a, returned |-> <<FALSE, FALSE>>,
                  premium |-> <<0, 0>>]

PremiumNext == \E i \in {1, 2} : calculatePremiumCall(i)

SpecPremium == PremiumInit /\ [][PremiumNext]_vars

\* the value of a little-endian word (below the checker's integer width)
RECURSIVE WordValueFrom(_, _)
WordValueFrom(w, i) ==
    IF i > Len(w) THEN 0 ELSE w[i] + 256 * WordValueFrom(w, i + 1)
WordValue(w) == WordValueFrom(w, 1)

\* floor(payoutAmount * ((100 - strikeScore) * 100) * durationInDays
\* / 1_000_000), by long multiplication and long division on bytes
premiumQuotient(strikeScore, durationInDays, payoutAmount) ==
    WordValue(WordDiv(WordMul(WordMul(ToWord(payoutAmount, 4),
                                      (100 - strikeScore) * 100),
                              durationInDays),
                      1000000))

\* the arguments of the i-th call are valid for buyPolicy
ValidQuote(i) ==
    /\ premiumQuotes.strikeScore[i] >= 1 /\ premiumQuotes.strikeScore[i] <= 100
    /\ premiumQuotes.durationInDays >= 1 /\ premiumQuotes.durationInDays <= 365
    /\ premiumQuotes.payoutAmount > 0

Quoted(i) == premiumQuotes.returned[i]

\* C13: the premium is monotonically non-increasing in the strike.  For a
\* fixed duration in [1,365] and payout > 0 and strikes 1 <= s1 <= s2 <= 100,
\* calculatePremium(s1, d, p) >= calculatePremium(s2, d, p).
C13_PremiumNonIncreasingInStrike ==
    (Quoted(1) /\ Quoted(2) /\ ValidQuote(1) /\ ValidQuote(2)) =>
        premiumQuotes.premium[1] >= premiumQuotes.premium[2]

\* two valid strikes s1 < s2 quoted, both above the minimum premium
C13_Witness ==
    /\ Quoted(1) /\ Quoted(2) /\ ValidQuote(1) /\ ValidQuote(2)
    /\ premiumQuotes.strikeScore[1] < premiumQuotes.strikeScore[2]
    /\ premiumQuotes.premium[2] > MIN_PREMIUM
    /\ premiumQuotes.premium[1] > premiumQuotes.premium[2]

\* C14: for valid inputs the premium is max(MIN_PREMIUM, floor(payoutAmount *
\* ((100 - strikeScore) * 100) * durationInDays / 1_000_000)); it is never
\* below MIN_PREMIUM, and strike 100 gives exactly MIN_PREMIUM.
C14_PremiumFormula ==
    \A i \in {1, 2} :
        (Quoted(i) /\ ValidQuote(i)) =>
            LET q == premiumQuotient(premiumQuotes.strikeScore[i],
                                     premiumQuotes.durationInDays,
                                     premiumQuotes.payoutAmount)
            IN  /\ premiumQuotes.premium[i] =
                       (IF q < MIN_PREMIUM THEN MIN_PREMIUM ELSE q)
                /\ premiumQuotes.premium[i] >= MIN_PREMIUM
                /\ premiumQuotes.strikeScore[i] = 100 =>
                       premiumQuotes.premium[i] = MIN_PREMIUM

\* a quote above the minimum whose division left a remainder, and a quote at
\* strike 100
C14_Witness ==
    /\ Quoted(1) /\ Quoted(2) /\ ValidQuote(1) /\ ValidQuote(2)
    /\ premiumQuotes.premium[1] > MIN_PREMIUM
    /\ MulDivQR(premiumQuotes.payoutAmount,
                (100 - premiumQuotes.strikeScore[1]) * 100
                    * premiumQuotes.durationInDays,
                PREMIUM_DIVISOR)[2] > 0
    /\ premiumQuotes.strikeScore[2] = 100
    /\ premiumQuotes.premium[2] = MIN_PREMIUM

(***************************************************************************)
(* The vault on its own, as PremiumVaultTest.setUp leaves it: constructed, *)
(* no engine bound yet, one user funded.                                   *)
(***************************************************************************)
\* the token argument of emergencyWithdraw: ether or the currency
TokenInputs == {ZERO, "usdc"}
\* amounts of currency offered to the vault, in its smallest unit
VaultAmountInputs == {0, 1, 2}
\* share amounts offered to redeem
ShareInputs == {0, 1, 2}
\* msg.sender of a call to the vault
VaultCallers == Callers \cup {ENGINE}

VaultInit ==
    /\ Constructed
    /\ usdcBalance = [h \in Holders |->
                         IF h = FUNDED_USER THEN VaultFunds ELSE 0]
    /\ equinoxProtocol = ZERO
    /\ premiumQuotes = NoQuotes

VaultNext ==
    \/ \E u \in Users, a \in VaultAmountInputs : depositPremium(u, a)
    \/ \E c \in VaultCallers, t \in Users \cup {ZERO}, a \in VaultAmountInputs :
          withdrawForPayout(c, t, a)
    \/ \E c \in Callers, e \in {ZERO, ENGINE} : setDeRiskProtocol(c, e)
    \/ \E c \in Callers, k \in TokenInputs, t \in Users \cup {ZERO},
          a \in VaultAmountInputs : emergencyWithdraw(c, k, t, a)
    \/ \E u \in Users, a \in VaultAmountInputs : deposit(u, a)
    \/ \E u \in Users, n \in ShareInputs : redeem(u, n)
    \/ \E u \in Users, a \in VaultAmountInputs : transferToVault(u, a)

SpecVault == VaultInit /\ [][VaultNext]_vars

\* depositPremium(amount) by `sender` goes through
depositPremiumSucceeds(sender, amount) ==
    depositPremiumCall(Ledger, vaultStatus, sender, amount).err = "ok"

\* C15: a successful depositPremium(amount) increases the pooled assets by
\* exactly amount and takes exactly amount from the depositor;
\* depositPremium(0) fails with PremiumVault__ZeroDeposit and changes nothing.
C15_DepositPremiumMovesExactAmount ==
    /\ [](\A u \in Users : vaultStatus = NOT_ENTERED =>
            depositPremiumCall(Ledger, vaultStatus, u, 0).err
                = "PremiumVault__ZeroDeposit")
    /\ [][UNCHANGED vars \/
          /\ \A u \in Users : ~depositPremium(u, 0)
          /\ \A u \in Users, a \in VaultAmountInputs :
                (depositPremiumSucceeds(u, a) /\ depositPremium(u, a)) =>
                    /\ totalAssets(Ledger)' = totalAssets(Ledger) + a
                    /\ usdcBalance'[u] = usdcBalance[u] - a]_vars

\* the pool after one deposit of 2 into the empty pool
C15_Witness ==
    /\ totalAssets(Ledger) = 2
    /\ shareBalance[VAULT] = 2
    /\ totalSupply = 2
    /\ usdcBalance[FUNDED_USER] = VaultFunds - 2

\* C16: no successful depositPremium of a nonzero amount mints zero shares:
\* with no shares issued it mints at least 1, and with shares issued a
\* conversion that rounds to 0 is rejected as PremiumVault__DepositTooSmall.
C16_NoZeroShareDeposit ==
    /\ [](\A u \in Users, a \in VaultAmountInputs :
            (a > 0 /\ totalSupply > 0 /\ convertToShares(Ledger, a) = 0) =>
                depositPremiumCall(Ledger, vaultStatus, u, a).err
                    = "PremiumVault__DepositTooSmall")
    /\ [][\A u \in Users, a \in VaultAmountInputs :
            (a > 0 /\ depositPremiumSucceeds(u, a) /\ depositPremium(u, a)) =>
                totalSupply' > totalSupply]_vars

(***************************************************************************)
(* The gated entry points of the vault and of Oracle together, from the    *)
(* vault's state before any engine is bound.                               *)
(***************************************************************************)
\* scores offered to the registry by the administrative calls
AdminScoreInputs == {100, 101}
\* image ids offered to setImageId
AdminImageInputs == {ZERO, "img1"}

AdminNext ==
    \/ \E u \in Users, a \in VaultAmountInputs : depositPremium(u, a)
    \/ \E c \in VaultCallers, t \in Users \cup {ZERO}, a \in VaultAmountInputs :
          withdrawForPayout(c, t, a)
    \/ \E c \in Callers, e \in {ZERO, ENGINE} : setDeRiskProtocol(c, e)
    \/ \E c \in Callers, k \in TokenInputs, t \in Users \cup {ZERO},
          a \in VaultAmountInputs : emergencyWithdraw(c, k, t, a)
    \/ \E c \in Callers, p \in Protocols, s \in AdminScoreInputs :
          addProtocol(c, p, s)
    \/ \E c \in Callers, p \in Protocols, s \in AdminScoreInputs :
          updateScore(c, p, s)
    \/ \E c \in Callers, v \in {ZERO, VERIFIER} : setVerifier(c, v)
    \/ \E c \in Callers, p \in Protocols, i \in AdminImageInputs :
          setImageId(c, p, i)

SpecAdmin == VaultInit /\ [][AdminNext]_vars

\* callers other than the owner, and callers other than the bound engine
NonOwners == Callers \ {OWNER}
NonEngines == VaultCallers \ {equinoxProtocol}

\* C17: every gated operation fails and changes nothing for an unauthorised
\* caller: withdrawForPayout by anyone but the bound engine (also while no
\* engine is bound), and addProtocol, updateScore, setImageId, setVerifier,
\* setDeRiskProtocol and emergencyWithdraw by anyone but the owner.
C17_UnauthorisedCallsFail ==
    /\ [](/\ \A c \in NonEngines, t \in Users \cup {ZERO}, a \in VaultAmountInputs :
                withdrawForPayoutCall(Ledger, vaultStatus, equinoxProtocol,
                                      c, t, a).err # "ok"
          /\ \A c \in NonOwners :
                /\ \A p \in Protocols, s \in AdminScoreInputs :
                      /\ addProtocolError(c, p, s) # "ok"
                      /\ updateScoreError(c, p, s) # "ok"
                /\ \A p \in Protocols, i \in AdminImageInputs :
                      setImageIdError(c, p, i) # "ok"
                /\ \A v \in {ZERO, VERIFIER} : setVerifierError(c, v) # "ok"
                /\ \A e \in {ZERO, ENGINE} : setDeRiskProtocolError(c, e) # "ok"
                /\ \A k \in TokenInputs, t \in Users \cup {ZERO},
                      a \in VaultAmountInputs :
                      emergencyWithdrawCall(Ledger, vaultStatus, c, k, t, a).err
                          # "ok")
    /\ [][UNCHANGED vars \/
          /\ \A c \in NonEngines, t \in Users \cup {ZERO}, a \in VaultAmountInputs :
                ~withdrawForPayout(c, t, a)
          /\ \A c \in NonOwners :
                /\ \A p \in Protocols, s \in AdminScoreInputs :
                      ~addProtocol(c, p, s) /\ ~updateScore(c, p, s)
                /\ \A p \in Protocols, i \in AdminImageInputs : ~setImageId(c, p, i)
                /\ \A v \in {ZERO, VERIFIER} : ~setVerifier(c, v)
                /\ \A e \in {ZERO, ENGINE} : ~setDeRiskProtocol(c, e)
                /\ \A k \in TokenInputs, t \in Users \cup {ZERO},
                      a \in VaultAmountInputs : ~emergencyWithdraw(c, k, t, a)]_vars

\* no engine bound yet, while the vault holds assets and shares a withdrawal
\* could take, and the registry holds a subject whose score could be changed
C17_Witness ==
    /\ equinoxProtocol = ZERO
    /\ totalAssets(Ledger) > 0
    /\ shareBalance[VAULT] > 0
    /\ \E p \in Protocols : isProtocolRegistered[p] /\ protocolImageIds[p] # ZERO
    /\ riscZeroVerifier # ZERO

(***************************************************************************)
(* The policy's life cycle (under Spec).                                   *)
(***************************************************************************)
\* `claimer` holds the claim token of a policy somebody else bought
HoldsTransferredToken(claimer, policyId) ==
    /\ policies[policyId].exists
    /\ policies[policyId].holder # claimer
    /\ balanceOf[claimer][policyId] >= 1

Expired(policyId) ==
    policies[policyId].exists /\ blockTimestamp >= policies[policyId].expiry

\* C19: Claimed and Expired are terminal.  A claimed flag that is true stays
\* true; once now >= expiry the policy stays expired, no claimPayout on it
\* goes through and no step claims it or pays for it; expiry, strikeScore,
\* payoutAmount, protocol and exists never change once the policy exists.
C19_ClaimedAndExpiredAreTerminal ==
    /\ [](\A id \in PolicyIds, c \in Users :
            Expired(id) => claimPayoutError(c, id) # "ok")
    /\ [][UNCHANGED vars \/
          \A id \in PolicyIds :
             /\ policies[id].claimed => policies'[id].claimed
             /\ Expired(id) =>
                   /\ Expired(id)'
                   /\ policies'[id].claimed = policies[id].claimed
                   /\ payoutLog'[id] = payoutLog[id]
             /\ policies[id].exists =>
                   /\ policies'[id].exists
                   /\ policies'[id].expiry = policies[id].expiry
                   /\ policies'[id].strikeScore = policies[id].strikeScore
                   /\ policies'[id].payoutAmount = policies[id].payoutAmount
                   /\ policies'[id].protocol = policies[id].protocol]_vars

\* one policy has been claimed, and another has expired unclaimed while its
\* strike is breached, its token is held and the pool could pay it
C19_Witness ==
    \E id \in PolicyIds, other \in PolicyIds, c \in Users :
        /\ Idle
        /\ policies[other].claimed
        /\ Expired(id)
        /\ ~policies[id].claimed
        /\ StrikeBreached(id)
        /\ balanceOf[c][id] = 1
        /\ claimPayoutWithdraw(c, id).err = "ok"

\* the arguments buyPolicy validates are not all valid
InvalidPurchase(protocol, strikeScore, durationInDays, payoutAmount) ==
    \/ ~isProtocolRegistered[protocol]
    \/ strikeScore < 1 \/ strikeScore > 100
    \/ durationInDays < 1 \/ durationInDays > 365
    \/ payoutAmount = 0

\* C20: buyPolicy rejects, changing nothing, an unregistered protocol, a
\* strikeScore outside [1,100], a durationInDays outside [1,365] and a
\* payoutAmount of 0; so every stored policy has a registered protocol, a
\* strikeScore in [1,100], a payoutAmount > 0, and an expiry that is its
\* purchase time plus d days for some d in [1,365].
C20_OnlyValidPoliciesStored ==
    /\ [](/\ \A b \in Users, p \in Protocols, s \in StrikeInputs,
                d \in DurationInputs, a \in PayoutInputs :
                InvalidPurchase(p, s, d, a) => buyPolicyError(b, p, s, d, a) # "ok"
          /\ \A id \in PolicyIds :
                policies[id].exists =>
                    /\ policies[id].protocol \in Protocols
                    /\ isProtocolRegistered[policies[id].protocol]
                    /\ policies[id].strikeScore >= 1
                    /\ policies[id].strikeScore <= 100
                    /\ policies[id].payoutAmount > 0)
    /\ [][UNCHANGED vars \/
          /\ nextPolicyId < MaxPolicies =>
                \A p \in Protocols, s \in StrikeInputs, d \in DurationInputs,
                   a \in PayoutInputs :
                   InvalidPurchase(p, s, d, a) =>
                       \A b \in Users : ~buyPolicy(b, p, s, d, a)
          /\ \A id \in PolicyIds :
                (~policies[id].exists /\ policies'[id].exists) =>
                    \E d \in 1 .. 365 :
                        policies'[id].expiry = blockTimestamp + d * DAY]_vars

\* a policy is stored while a protocol is still unregistered, so that the
\* same purchase for the other protocol is one buyPolicy rejects
C20_Witness ==
    \E id \in PolicyIds, p \in Protocols :
        /\ policies[id].exists
        /\ policies[id].expiry > blockTimestamp
        /\ ~isProtocolRegistered[p]
        /\ nextPolicyId < MaxPolicies
        /\ totalAssets(Ledger) >= MIN_PREMIUM
        /\ usdcBalance[FUNDED_USER] >= MIN_PREMIUM

\* C21: policy ids are unique and assigned in order.  The records that exist
\* are exactly those of the ids below nextPolicyId (getTotalPolicies); the
\* counter moves only in a buyPolicy that goes through, by one, and that
\* step writes the record of the id the counter stood at, which did not
\* exist; no step rewrites the record of an existing id, but for its claimed
\* flag.
C21_PolicyIdsUniqueAndMonotonic ==
    /\ [](\A id \in PolicyIds : policies[id].exists <=> id < nextPolicyId)
    /\ [][UNCHANGED vars \/
          /\ nextPolicyId' = nextPolicyId \/ nextPolicyId' = nextPolicyId + 1
          /\ nextPolicyId' # nextPolicyId =>
                /\ ~policies[nextPolicyId].exists
                /\ policies'[nextPolicyId].exists
                /\ \E b \in Users, p \in Protocols, s \in StrikeInputs,
                      d \in DurationInputs, a \in PayoutInputs :
                      /\ buyPolicyError(b, p, s, d, a) = "ok"
                      /\ buyPolicy(b, p, s, d, a)
          /\ nextPolicyId' = nextPolicyId =>
                \A id \in PolicyIds : policies'[id].exists = policies[id].exists
          /\ \A id \in PolicyIds :
                policies[id].exists =>
                    policies'[id] = [policies[id] EXCEPT
                                        !.claimed = policies'[id].claimed]]_vars

\* two policies were issued, ids 0 and 1, and the first has been claimed
C21_Witness ==
    /\ nextPolicyId = 2
    /\ policies[0].exists /\ policies[0].claimed
    /\ policies[1].exists /\ ~policies[1].claimed

\* the premium of the policy a step has just stored under `policyId`
premiumOfNew(policyId) ==
    calculatePremium(policies'[policyId].strikeScore,
                     (policies'[policyId].expiry - blockTimestamp) \div DAY,
                     policies'[policyId].payoutAmount)

\* C22: premium pass-through.  A buyPolicy that goes through takes exactly
\* the computed premium from the buyer and adds exactly that premium to the
\* pooled assets; the engine's own currency balance and everybody else's are
\* as before; exactly one claim token of the new id is minted, to the buyer.
C22_PremiumPassThrough ==
    [][UNCHANGED vars \/ nextPolicyId' = nextPolicyId \/
       LET id      == nextPolicyId
           buyer   == policies'[id].holder
           premium == premiumOfNew(id)
       IN  /\ premium >= MIN_PREMIUM
           /\ usdcBalance'[buyer] = usdcBalance[buyer] - premium
           /\ totalAssets(Ledger)' = totalAssets(Ledger) + premium
           /\ usdcBalance'[ENGINE] = usdcBalance[ENGINE]
           /\ \A h \in Holders \ {buyer, VAULT} : usdcBalance'[h] = usdcBalance[h]
           /\ balanceOf[buyer][id] = 0
           /\ balanceOf'[buyer][id] = 1
           /\ \A u \in Users \ {buyer} : balanceOf'[u][id] = 0]_vars

\* the first purchase has just gone through: the buyer's premium is in the
\* pool, the engine holds nothing, the buyer holds the one token of id 0
C22_Witness ==
    /\ nextPolicyId = 1
    /\ engineStatus = ENTERED
    /\ policies[0].holder = FUNDED_USER
    /\ balanceOf[FUNDED_USER][0] = 1
    /\ usdcBalance[ENGINE] = 0
    /\ usdcBalance[FUNDED_USER] + totalAssets(Ledger) = InitialFunds
    /\ totalAssets(Ledger) >= policies[0].payoutAmount + MIN_PREMIUM

(***************************************************************************)
(* The vault's share custody (SpecVault).                                  *)
(***************************************************************************)
\* C24: all vault shares are self-custodied: in every reachable state the
\* vault's own share balance equals the total supply and no other account
\* holds shares (so no depositor can redeem any).
C24_AllSharesSelfCustodied ==
    /\ shareBalance[VAULT] = totalSupply
    /\ \A h \in Holders \ {VAULT} : shareBalance[h] = 0

\* C25: no emergencyWithdraw call changes the vault's total pooled assets.
C25_EmergencyWithdrawLeavesPool ==
    [][UNCHANGED vars \/
       \A k \in TokenInputs, t \in Users, a \in VaultAmountInputs :
          (/\ emergencyWithdrawCall(Ledger, vaultStatus, OWNER, k, t, a).err = "ok"
           /\ emergencyWithdraw(OWNER, k, t, a))
              => totalAssets(Ledger)' = totalAssets(Ledger)]_vars

StepPayoutInputs == {0, MIN_PREMIUM, 2 * MIN_PREMIUM}
StepScoreInputs == {49, 50}
StepProtocols == {"P1"}

StepNext ==
    \/ \E b \in Users, p \in StepProtocols, a \in StepPayoutInputs :
          buyPolicyEnter(b, p, 50, 1, a)
    \/ buyPolicyPull
    \/ buyPolicyDeposit
    \/ buyPolicyAllocate
    \/ buyPolicyStore
    \/ buyPolicyInsure
    \/ buyPolicyMint
    \/ buyPolicyMintRejected
    \/ \E c \in Users, id \in PolicyIds : claimPayoutEnter(c, id)
    \/ claimPayoutMark
    \/ claimPayoutDecrement
    \/ claimPayoutBurn
    \/ claimPayoutVaultWithdraw
    \/ callReturn
    \/ \E b \in Users, p \in StepProtocols, a \in StepPayoutInputs :
          call # NoCall /\ buyPolicy(b, p, 50, 1, a)
    \/ \E c \in Users, id \in PolicyIds : call # NoCall /\ claimPayout(c, id)
    \/ \E u \in Users, a \in AmountInputs : transferToVault(u, a)
    \/ \E u \in Users, a \in AmountInputs : depositPremium(u, a)
    \/ \E p \in StepProtocols, s \in StepScoreInputs :
          DeRiskOracle_addProtocol(OWNER, p, s)
    \/ \E p \in StepProtocols, s \in StepScoreInputs :
          DeRiskOracle_updateScore(OWNER, p, s)
    \/ advanceTime

SpecSteps == Init /\ [][StepNext]_vars

\* the running claimPayout ends in this step without having paid
ClaimFails ==
    /\ call.op = "claimPayout"
    /\ call.at # "withdrawn"
    /\ call'.op = "none"

\* C23: claims are atomic: when claimPayout fails at any step, also inside
\* the vault withdrawal after the flag was set and the token burned, then
\* afterwards claimed is false, totalInsuredPerProtocol and every balance
\* of currency and shares are what they were when the call was entered, the
\* caller holds the claim token, and the same claim passes every check
\* again.
C23_FailedClaimChangesNothing ==
    [][ClaimFails =>
          \A c \in Users, id \in PolicyIds :
             (c = call.sender /\ id = call.policyId) =>
                /\ ~policies'[id].claimed
                /\ policies' = call.entry.policies
                /\ totalInsuredPerProtocol' = call.entry.totalInsuredPerProtocol
                /\ balanceOf'[c][id] >= 1
                /\ balanceOf' = call.entry.balanceOf
                /\ usdcBalance' = call.entry.usdcBalance
                /\ shareBalance' = call.entry.shareBalance
                /\ totalSupply' = call.entry.totalSupply
                /\ payoutLog' = call.entry.payoutLog
                /\ engineStatus' = NOT_ENTERED /\ vaultStatus' = NOT_ENTERED
                /\ claimPayoutCheck(c, id)' = "ok"]_vars

\* a claim that has set the flag, lowered the aggregate and burned the
\* token, and whose vault withdrawal is about to fail
C23_Witness ==
    /\ call.op = "claimPayout"
    /\ call.at = "burned"
    /\ policies[call.policyId].claimed
    /\ balanceOf[call.sender][call.policyId] = 0
    /\ withdrawForPayoutCall(Ledger, vaultStatus, equinoxProtocol, ENGINE,
                             call.sender, call.payoutAmount).err # "ok"

\* the running claimPayout has burned the caller's claim token
TokenBurned ==
    balanceOf[call.sender][call.policyId]
        < call.entry.balanceOf[call.sender][call.policyId]

\* the running claimPayout has moved currency or burned vault shares
CurrencyMoved ==
    \/ usdcBalance # call.entry.usdcBalance
    \/ shareBalance # call.entry.shareBalance
    \/ totalSupply # call.entry.totalSupply

\* C26: within claimPayout the claimed flag is set and
\* totalInsuredPerProtocol is lowered before the claim token is burned and
\* before the vault withdrawal: at no point of a running claim is the token
\* burned or currency moved while claimed is false or the aggregate is not
\* yet lowered.
C26_ClaimBookkeepingFirst ==
    (call.op = "claimPayout" /\ (TokenBurned \/ CurrencyMoved)) =>
        /\ policies[call.policyId].claimed
        /\ totalInsuredPerProtocol[call.protocol]
              = call.entry.totalInsuredPerProtocol[call.protocol]
                    - call.payoutAmount

\* a claim whose payout is being transferred
C26_Witness ==
    /\ call.op = "claimPayout"
    /\ call.at = "withdrawn"
    /\ TokenBurned
    /\ usdcBalance[call.sender]
          = call.entry.usdcBalance[call.sender] + call.payoutAmount
    /\ policies[call.policyId].claimed

\* the running buyPolicy has made one of its external calls: the premium
\* pull, the vault deposit, or the mint with its acceptance callback
ExternalCallMade ==
    \/ usdcBalance # call.entry.usdcBalance
    \/ shareBalance # call.entry.shareBalance
    \/ balanceOf # call.entry.balanceOf

\* C27: within buyPolicy the id allocation, the policy record and the
\* increment of totalInsuredPerProtocol are applied before every external
\* call: at no point of a running purchase has the premium been pulled,
\* the vault deposit been made or the claim token been minted while one of
\* the three writes is still missing.
C27_IssuanceBookkeepingFirst ==
    (call.op = "buyPolicy" /\ ExternalCallMade) =>
        /\ nextPolicyId = call.entry.nextPolicyId + 1
        /\ policies[call.entry.nextPolicyId].exists
        /\ totalInsuredPerProtocol[call.protocol]
              = call.entry.totalInsuredPerProtocol[call.protocol]
                    + call.payoutAmount

\* every call of buyPolicy and claimPayout made now is rejected by the lock
EngineLocked ==
    /\ \A b \in Users, p \in StepProtocols, a \in StepPayoutInputs :
          buyPolicyError(b, p, 50, 1, a) = "ReentrancyGuardReentrantCall"
    /\ \A c \in Users, id \in PolicyIds :
          claimPayoutCheck(c, id) = "ReentrancyGuardReentrantCall"

\* no call of buyPolicy or claimPayout made now is rejected by the lock
EngineFree ==
    /\ \A b \in Users, p \in StepProtocols, a \in StepPayoutInputs :
          buyPolicyError(b, p, 50, 1, a) # "ReentrancyGuardReentrantCall"
    /\ \A c \in Users, id \in PolicyIds :
          claimPayoutCheck(c, id) # "ReentrancyGuardReentrantCall"

\* C28: while buyPolicy or claimPayout is executing, at every statement of
\* it, a call of buyPolicy or claimPayout is rejected by the lock and
\* changes nothing; when the operation has ended, by returning or by
\* reverting, the lock is free and no call is rejected by it.
C28_EngineExclusionLock ==
    /\ [](call # NoCall => engineStatus = ENTERED /\ EngineLocked)
    /\ [](call = NoCall => engineStatus = NOT_ENTERED /\ EngineFree)
    /\ [][UNCHANGED vars \/ call = NoCall \/
          /\ \A b \in Users, p \in StepProtocols, a \in StepPayoutInputs :
                ~buyPolicy(b, p, 50, 1, a)
          /\ \A c \in Users, id \in PolicyIds : ~claimPayout(c, id)]_vars

\* a purchase whose claim token is minted and whose acceptance callback is
\* running under the lock
C28_Witness ==
    /\ call.op = "buyPolicy"
    /\ call.at = "minted"
    /\ balanceOf[call.sender][call.policyId] = 1
    /\ engineStatus = ENTERED

(***************************************************************************)
(* The vault while one of its calls is executing (SpecVaultWindow): the    *)
(* transactions of SpecVault, the owner's emergencyWithdraw of the stuck   *)
(* token, and the calls made while that token's transfer is running.       *)
(***************************************************************************)
VaultWindowNext ==
    \/ \E u \in Users, a \in VaultAmountInputs : depositPremium(u, a)
    \/ \E c \in VaultCallers, t \in Users, a \in VaultAmountInputs :
          withdrawForPayout(c, t, a)
    \/ \E e \in {ZERO, ENGINE} : setDeRiskProtocol(OWNER, e)
    \/ \E k \in TokenInputs \cup {STUCK_TOKEN}, t \in Users,
          a \in VaultAmountInputs : emergencyWithdraw(OWNER, k, t, a)
    \/ emergencyWithdrawReturn
    \/ \E u \in Users, a \in VaultAmountInputs : deposit(u, a)
    \/ \E u \in Users, n \in ShareInputs : redeem(u, n)
    \/ \E u \in Users, a \in VaultAmountInputs : transferToVault(u, a)

SpecVaultWindow == VaultInit /\ [][VaultWindowNext]_vars

\* C29: no operation that changes the vault's pooled assets or shares
\* starts while another one is executing: as long as the vault's lock is
\* held by a running call, the pooled assets, the share balances and the
\* share supply stay as they are.
C29_VaultMutualExclusion ==
    [][(vaultStatus = ENTERED /\ vaultStatus' = ENTERED)
          => UNCHANGED ledgerVars]_vars

(***************************************************************************)
(* Exposure against the pool (SpecExposure): the system of Spec with one   *)
(* protocol, a buyer holding four premiums, and payouts of two and three   *)
(* premiums.                                                               *)
(***************************************************************************)
ExposureFunds == 4 * MIN_PREMIUM
ExposurePayoutInputs == {2 * MIN_PREMIUM, 3 * MIN_PREMIUM}
ExposureScoreInputs == {49, 50}

ExposureInit ==
    /\ Constructed
    /\ usdcBalance = [h \in Holders |->
                         IF h = FUNDED_USER THEN ExposureFunds ELSE 0]
    /\ equinoxProtocol = ENGINE
    /\ premiumQuotes = NoQuotes

ExposureNext ==
    \/ \E b \in Users, a \in ExposurePayoutInputs : buyPolicy(b, "P1", 50, 1, a)
    \/ \E c \in Users, id \in PolicyIds : claimPayout(c, id)
    \/ engineReturn
    \/ \E u \in Users, a \in AmountInputs : transferToVault(u, a)
    \/ \E s \in ExposureScoreInputs : DeRiskOracle_addProtocol(OWNER, "P1", s)
    \/ \E s \in ExposureScoreInputs : DeRiskOracle_updateScore(OWNER, "P1", s)
    \/ advanceTime

SpecExposure == ExposureInit /\ [][ExposureNext]_vars

\* the payouts promised by the policies that are neither claimed nor expired
outstandingExposure ==
    payoutSum(UNION {livePolicies(p) : p \in Protocols})

\* C31: issuance is gated only by the balance check made at the instant of
\* the purchase: a buyPolicy call with valid arguments, a pool holding at
\* least the payout asked for and a buyer holding the premium goes through
\* whatever the outstanding policies already promise, also when they promise
\* the whole pool or more.
C31_ExposureNeverBlocksIssuance ==
    \A b \in Users, a \in ExposurePayoutInputs :
        (/\ Idle
         /\ PassesInputValidation("P1", 50, 1, a)
         /\ totalAssets(Ledger) >= a
         /\ usdcBalance[b] >= calculatePremium(50, 1, a))
            => buyPolicyError(b, "P1", 50, 1, a) = "ok"

\* two policies bought one after the other, neither claimed nor expired,
\* that promise more than the pool holds
C31_Witness ==
    /\ nextPolicyId = 2
    /\ livePolicies("P1") = {0, 1}
    /\ outstandingExposure = policies[0].payoutAmount + policies[1].payoutAmount
    /\ outstandingExposure > totalAssets(Ledger)

(***************************************************************************)
(* Attestations (SpecOracle).                                              *)
(***************************************************************************)
\* the verifier accepts the seal for the journal under the image id bound
\* to the protocol
Verified(protocol, journal, seal) ==
    /\ ReachesVerifier(protocol, journal)
    /\ verify(seal, protocolImageIds[protocol], sha256(journal)) = "ok"

\* this step counts one more verified attestation for the protocol
Attested(protocol) ==
    protocolMetrics'[protocol].zkVerificationCount
        = protocolMetrics[protocol].zkVerificationCount + 1

\* C32: updateScoreWithProof has no freshness or replay check: a verified
\* journal is accepted whatever last-update timestamp is stored for the
\* protocol, also one that is newer than or equal to the journal's, and
\* every accepted update overwrites the stored score and timestamp with
\* those of a verified journal.
C32_NoFreshnessCheck ==
    /\ [](\A p \in Protocols, j \in WellFormedJournals, z \in SealInputs :
            Verified(p, j, z) => updateScoreWithProofError(p, j, z) = "ok")
    /\ [][\A p \in Protocols :
            Attested(p) =>
                \E j \in WellFormedJournals :
                    /\ \E z \in SealInputs : Verified(p, j, z)
                    /\ protocolMetrics'[p].lastUpdateTime = SubSeq(j, 41, 48)
                    /\ safetyScores'[p] = scoreOutOf100(SubSeq(j, 1, 8))]_vars

\* a protocol whose stored timestamp, written by a manual update on the
\* second day, is newer than the timestamp of a journal that is verified
\* and about to be accepted for the second time
C32_Witness ==
    \E p \in Protocols, j \in WellFormedJournals, z \in SealInputs :
        /\ protocolMetrics[p].zkVerificationCount = 1
        /\ protocolMetrics[p].totalAssets = SubSeq(j, 9, 24)
        /\ protocolMetrics[p].lastUpdateTime = ToWord(2 * DAY, 8)
        /\ SubSeq(j, 41, 48) = ToWord(DAY, 8)
        /\ Verified(p, j, z)
        /\ updateScoreWithProofError(p, j, z) = "ok"

(***************************************************************************)
(* Journals of every shape through updateScoreWithProof (SpecJournal): one *)
(* protocol, configured by the owner, and a verified receipt for each      *)
(* journal.                                                                *)
(***************************************************************************)
\* basis points 0, 99, 100, 4999, 9999, and those of 100% or more
DecodedBasisPoints ==
    {ToWord(0, 8), ToWord(99, 8), ToWord(100, 8), ToWord(4999, 8),
     ToWord(9999, 8)} \cup FullBasisPointInputs
\* total assets with every byte different, counting up and counting down
DecodedAssets == {AssetsInput, [i \in 1 .. 16 |-> 256 - i]}
\* a day in seconds, and a timestamp with every byte different
DecodedTimestamps == {ToWord(DAY, 8), [i \in 1 .. 8 |-> 200 + i]}

DecodedJournals ==
    {bp \o as \o LiabilitiesInput \o ts :
        bp \in DecodedBasisPoints, as \in DecodedAssets,
        ts \in DecodedTimestamps}
DecodedSeals ==
    {[kind |-> "receipt", imageId |-> "img1", journal |-> j] :
        j \in DecodedJournals}

JournalNext ==
    \/ addProtocol(OWNER, "P1", 0)
    \/ setVerifier(OWNER, VERIFIER)
    \/ setImageId(OWNER, "P1", "img1")
    \/ updateScore(OWNER, "P1", 0)
    \/ \E j \in DecodedJournals, z \in DecodedSeals :
          z.journal = j /\ updateScoreWithProof("P1", j, z)
    \/ advanceTime

SpecJournal == Init /\ [][JournalNext]_vars

\* C35: journal decoding is bit-exact little-endian: for every 48-byte
\* journal the decoded fields are bytes [0,8), [8,24), [24,40) and [40,48),
\* byte offset + i of the journal being the digit of weight 256^i of the
\* field, so that the four fields laid end to end are the journal, every
\* byte in exactly one field; and what a successful update stores as
\* total assets, total liabilities and timestamp are those bytes.
C35_JournalDecodedLittleEndian ==
    /\ [](\A j \in DecodedJournals :
            LET safetyScoreBP    == readUint64LE(j, 0)
                totalAssetsZK    == readUint128LE(j, 8)
                totalLiabilities == readUint128LE(j, 24)
                timestamp        == readUint64LE(j, 40)
            IN  /\ \A i \in 0 .. 7 : safetyScoreBP[i + 1] = j[0 + i + 1]
                /\ \A i \in 0 .. 15 : totalAssetsZK[i + 1] = j[8 + i + 1]
                /\ \A i \in 0 .. 15 : totalLiabilities[i + 1] = j[24 + i + 1]
                /\ \A i \in 0 .. 7 : timestamp[i + 1] = j[40 + i + 1]
                /\ SubSeq(j, 41, 48) = ToWord(DAY, 8) =>
                       WordValue(SubSeq(timestamp, 1, 3)) = DAY
                /\ safetyScoreBP \o totalAssetsZK \o totalLiabilities
                       \o timestamp = j)
    /\ [][\A p \in Protocols :
            Attested(p) =>
                \E j \in DecodedJournals :
                    /\ \E z \in DecodedSeals : Verified(p, j, z)
                    /\ protocolMetrics'[p].totalAssets = SubSeq(j, 9, 24)
                    /\ protocolMetrics'[p].totalLiabilities = SubSeq(j, 25, 40)
                    /\ protocolMetrics'[p].lastUpdateTime = SubSeq(j, 41, 48)]_vars

\* a protocol updated once by the journal of 4999 basis points: the stored
\* fields are the bytes 1 .. 16, 101 .. 116 and those of one day in seconds
C35_Witness ==
    \E p \in {"P1"} :
        /\ protocolMetrics[p].zkVerificationCount = 1
        /\ safetyScores[p] = 49
        /\ protocolMetrics[p].totalAssets = [i \in 1 .. 16 |-> i]
        /\ protocolMetrics[p].totalLiabilities = [i \in 1 .. 16 |-> 100 + i]
        /\ WordValue(SubSeq(protocolMetrics[p].lastUpdateTime, 1, 3)) = DAY

\* min(100, floor(bp * 100 / 10000)) of a 64-bit number of basis points
\* given by its bytes: the quotient is computed when bp < 2^24, and is more
\* than 100 when it is not
ExpectedScore(bp) ==
    IF \A i \in 4 .. 8 : bp[i] = 0
    THEN Min(100, (WordValue(SubSeq(bp, 1, 3)) * 100) \div 10000)
    ELSE 100

\* C33: the score a successful attestation stores is
\* min(100, floor(bp * 100 / 10000)) for every 64-bit number of basis
\* points bp, with no overflow for the largest ones, and the stored total
\* assets, total liabilities and last-update timestamp are the fields of
\* the same verified journal.
C33_AttestedScoreFromBasisPoints ==
    /\ [](\A bp \in DecodedBasisPoints :
            scoreOutOf100(bp) = ExpectedScore(bp))
    /\ [][\A p \in Protocols :
            Attested(p) =>
                \E j \in DecodedJournals :
                    /\ \E z \in DecodedSeals : Verified(p, j, z)
                    /\ safetyScores'[p] = ExpectedScore(SubSeq(j, 1, 8))
                    /\ protocolMetrics'[p] =
                           [totalAssets |-> SubSeq(j, 9, 24),
                            totalLiabilities |-> SubSeq(j, 25, 40),
                            lastUpdateTime |-> SubSeq(j, 41, 48),
                            zkVerificationCount |->
                                protocolMetrics[p].zkVerificationCount + 1]]_vars

\* a protocol attested twice, last by a journal of 9999 basis points, total
\* assets 255 .. 240 and timestamp 201 .. 208: the stored score is 99
C33_Witness ==
    \E p \in {"P1"} :
        /\ protocolMetrics[p].zkVerificationCount = 2
        /\ safetyScores[p] = 99
        /\ protocolMetrics[p].totalAssets = [i \in 1 .. 16 |-> 256 - i]
        /\ protocolMetrics[p].lastUpdateTime = [i \in 1 .. 8 |-> 200 + i]

\* the attested total assets and total liabilities of the protocol are
\* left as they are by this step
AttestedMetricsKept(protocol) ==
    /\ protocolMetrics'[protocol].totalAssets
           = protocolMetrics[protocol].totalAssets
    /\ protocolMetrics'[protocol].totalLiabilities
           = protocolMetrics[protocol].totalLiabilities

\* C34: the verification counter of a protocol goes up by exactly one in
\* each successful updateScoreWithProof for that protocol and is changed by
\* nothing else: a step either leaves it or adds one; a step that adds one
\* stores the total assets and liabilities of a journal the verifier
\* accepts for that protocol and leaves the metrics of every other protocol
\* alone; every other step (a manual updateScore, a rejected submission, an
\* update of another protocol) leaves the counter and the attested total
\* assets and liabilities unchanged; and a score changes only by a manual
\* entry point or in a step that counts a verification.
C34_VerificationCounter ==
    [][\A p \in Protocols :
        /\ \/ Attested(p)
           \/ protocolMetrics'[p].zkVerificationCount
                  = protocolMetrics[p].zkVerificationCount
        /\ Attested(p) =>
               /\ \E j \in WellFormedJournals :
                      /\ \E z \in SealInputs : Verified(p, j, z)
                      /\ protocolMetrics'[p].totalAssets = SubSeq(j, 9, 24)
                      /\ protocolMetrics'[p].totalLiabilities = SubSeq(j, 25, 40)
               /\ \A q \in Protocols \ {p} :
                      protocolMetrics'[q] = protocolMetrics[q]
        /\ ~Attested(p) => AttestedMetricsKept(p)
        /\ (\E c \in Callers, n \in OracleScoreInputs : updateScore(c, p, n)) =>
               \A q \in Protocols :
                   /\ ~Attested(q)
                   /\ AttestedMetricsKept(q)
        /\ safetyScores'[p] # safetyScores[p] =>
               \/ Attested(p)
               \/ \E c \in Callers, n \in OracleScoreInputs :
                      updateScore(c, p, n) \/ addProtocol(c, p, n)]_vars

\* the first protocol attested once and then updated manually on the second
\* day, the second protocol registered, bound to a program and never
\* attested
C34_Witness ==
    /\ protocolMetrics["P1"].zkVerificationCount = 1
    /\ protocolMetrics["P1"].totalAssets = AssetsInput
    /\ protocolMetrics["P1"].lastUpdateTime = ToWord(2 * DAY, 8)
    /\ isProtocolRegistered["P2"]
    /\ protocolImageIds["P2"] # ZERO
    /\ protocolMetrics["P2"].zkVerificationCount = 0
    /\ protocolMetrics["P2"].totalAssets # AssetsInput
    /\ protocolMetrics["P2"].lastUpdateTime = ToWord(2 * DAY, 8)

\* the seal is a receipt of the program now bound to the protocol, for the
\* journal
ReceiptOfBoundProgram(protocol, journal, seal) ==
    /\ seal.kind = "receipt"
    /\ protocolImageIds[protocol] # ZERO
    /\ seal.imageId = protocolImageIds[protocol]
    /\ seal.journal = journal

\* C36: the program binding gates attestation.  updateScoreWithProof
\* succeeds only with a seal the verifier accepts for the image id now bound
\* to that same protocol, so that a receipt of any other image id (the one
\* bound before a rebinding, or the one bound to another protocol) is never
\* accepted; a step that counts a verification stores the fields of a
\* journal with such a receipt; setImageId fails for a protocol that is not
\* registered, and only registered protocols have a program bound.
C36_ProgramBindingGatesAttestation ==
    /\ [](\A p \in Protocols :
            /\ \A j \in JournalInputs, z \in SealInputs :
                   updateScoreWithProofError(p, j, z) = "ok" =>
                       ReceiptOfBoundProgram(p, j, z)
            /\ ~isProtocolRegistered[p] =>
                   /\ protocolImageIds[p] = ZERO
                   /\ \A c \in Callers, i \in ImageIds \cup {ZERO} :
                          setImageIdError(c, p, i) # "ok"
                   /\ \A i \in ImageIds :
                          setImageIdError(OWNER, p, i) = "Protocol not registered")
    /\ [][\A p \in Protocols :
            Attested(p) =>
                \E j \in WellFormedJournals, z \in SealInputs :
                    /\ ReceiptOfBoundProgram(p, j, z)
                    /\ protocolMetrics'[p].totalAssets = SubSeq(j, 9, 24)
                    /\ protocolMetrics'[p].lastUpdateTime = SubSeq(j, 41, 48)
                    /\ protocolImageIds'[p] = protocolImageIds[p]]_vars

\* the first protocol, attested under the first program with 4999 basis
\* points, is now bound to the second program, and the second protocol to
\* the first program: a receipt of the first program reaches the verifier
\* for the first protocol and is not accepted
C36_Witness ==
    /\ protocolMetrics["P1"].zkVerificationCount >= 1
    /\ safetyScores["P1"] = 49
    /\ protocolImageIds["P1"] = "img2"
    /\ protocolImageIds["P2"] = "img1"
    /\ \E j \in WellFormedJournals, z \in SealInputs :
           /\ z.kind = "receipt" /\ z.imageId = "img1" /\ z.journal = j
           /\ ReachesVerifier("P1", j)
           /\ updateScoreWithProofError("P1", j, z) # "ok"
           /\ updateScoreWithProofError("P2", j, z) = "ok"

(***************************************************************************)
(* The owner's emergency exit (SpecVault).                                 *)
(***************************************************************************)
\* C37: emergencyWithdraw is independent of the share accounting.  A call
\* with a null recipient or a zero amount fails with that reason for the
\* owner, fails for everyone, and leaves the ledger as it is; a successful
\* call is the owner's, and for the currency it moves exactly `amount` from
\* the vault to the recipient, changes no other balance, and changes
\* neither the total supply of shares nor any share balance.
C37_EmergencyWithdrawOutsideShares ==
    /\ [](\A c \in Callers, k \in TokenInputs, t \in Users \cup {ZERO},
             a \in VaultAmountInputs :
            LET r == emergencyWithdrawCall(Ledger, vaultStatus, c, k, t, a)
            IN  /\ (t = ZERO \/ a = 0) => r.err # "ok" /\ r.l = Ledger
                /\ (c = OWNER /\ vaultStatus = NOT_ENTERED /\ t = ZERO) =>
                       r.err = "PremiumVault: invalid recipient"
                /\ (c = OWNER /\ vaultStatus = NOT_ENTERED /\ t # ZERO /\ a = 0) =>
                       r.err = "PremiumVault: zero amount"
                /\ r.err = "ok" => c = OWNER /\ t # ZERO /\ a > 0)
    /\ [][UNCHANGED vars \/
          \A k \in TokenInputs, t \in Users, a \in VaultAmountInputs \ {0} :
            (/\ emergencyWithdrawCall(Ledger, vaultStatus, OWNER, k, t, a).err = "ok"
             /\ emergencyWithdraw(OWNER, k, t, a))
                => /\ k = "usdc"
                   /\ usdcBalance'[VAULT] = usdcBalance[VAULT] - a
                   /\ usdcBalance'[t] = usdcBalance[t] + a
                   /\ \A h \in Holders \ {VAULT, t} :
                          usdcBalance'[h] = usdcBalance[h]
                   /\ totalSupply' = totalSupply
                   /\ shareBalance' = shareBalance]_vars

\* no engine has ever been bound, the vault minted itself a share for a
\* premium, and B, who started with nothing and holds no share, was sent
\* one unit by emergencyWithdraw
C37_Witness ==
    /\ equinoxProtocol = ZERO
    /\ usdcBalance["B"] = 1
    /\ shareBalance["B"] = 0
    /\ shareBalance["A"] = 0
    /\ shareBalance[VAULT] >= 1
    /\ totalSupply = shareBalance[VAULT]
    /\ usdcBalance[FUNDED_USER] + totalAssets(Ledger) = VaultFunds - 1

(***************************************************************************)
(* The view isClaimable against claimPayout (Spec).                        *)
(***************************************************************************)
\* the reason string of isClaimable that names the check claimPayout
\* reports with the error
ReasonNaming(error) ==
    CASE error = "DeRiskProtocol__PolicyDoesNotExist" -> "Policy does not exist"
      [] error = "DeRiskProtocol__PolicyAlreadyClaimed" -> "Policy already claimed"
      [] error = "DeRiskProtocol__PolicyExpired" -> "Policy expired"
      [] error = "DeRiskProtocol__StrikeNotBreached" -> "Strike not breached"
      [] OTHER -> "no reason of isClaimable"

\* C38: isClaimable replicates the eligibility checks of claimPayout for
\* the current holder of the claim token.  Between transactions, for every
\* policy id and every account that holds its claim token: isClaimable
\* reverts exactly when claimPayout reverts in the oracle's getScore; when
\* it returns, it returns true exactly when claimPayout by that holder
\* passes every check, and when it returns false its reason names the check
\* claimPayout fails.  When it returns true some account holds the token;
\* the two checks claimPayout makes in another order (expiry before
\* claimed) never decide differently for a holder, a claimed policy having
\* no holder.
C38_IsClaimableReplicatesChecks ==
    Idle =>
        \A id \in PolicyIds :
            /\ \A c \in Users :
                   balanceOf[c][id] > 0 =>
                       /\ isClaimable(id).err # "ok" <=>
                              claimPayoutCheck(c, id) = "Protocol not registered"
                       /\ isClaimable(id).err # "ok" =>
                              isClaimable(id).err = claimPayoutCheck(c, id)
                       /\ isClaimable(id).err = "ok" =>
                              /\ isClaimable(id).claimable <=>
                                     claimPayoutCheck(c, id) = "ok"
                              /\ ~isClaimable(id).claimable =>
                                     isClaimable(id).reason
                                         = ReasonNaming(claimPayoutCheck(c, id))
            /\ (isClaimable(id).err = "ok" /\ isClaimable(id).claimable) =>
                   \E c \in Users : balanceOf[c][id] > 0
            /\ (policies[id].claimed \/ ~policies[id].exists) =>
                   \A c \in Users : balanceOf[c][id] = 0

\* B holds the claim tokens of two policies bought by A: the first is
\* claimable, the second is not because its strike is not breached
C38_Witness ==
    /\ Idle
    /\ balanceOf["B"][0] > 0 /\ balanceOf["B"][1] > 0
    /\ policies[0].holder = "A" /\ policies[1].holder = "A"
    /\ isClaimable(0) = Claimable
    /\ claimPayoutCheck("B", 0) = "ok"
    /\ isClaimable(1) = NotClaimable("Strike not breached")
    /\ claimPayoutCheck("B", 1) = "DeRiskProtocol__StrikeNotBreached"

(***************************************************************************)
(* The insured aggregate under claims (SpecExposure).                      *)
(***************************************************************************)
\* C39: totalInsuredPerProtocol[s] is the sum of payoutAmount over the
\* policies of s whose claimed flag is false, expired or not, so it covers
\* the payout of each of them; consequently the checked subtraction of
\* claimPayout never underflows: no call fails with the arithmetic panic,
\* and a successful claim lowers the aggregate of the policy's protocol by
\* exactly its payout, to the sum over the policies still unclaimed.
C39_ClaimDecrementNeverUnderflows ==
    /\ [](\A p \in Protocols :
            /\ totalInsuredPerProtocol[p] = payoutSum(unclaimedPolicies(p))
            /\ \A id \in unclaimedPolicies(p) :
                   totalInsuredPerProtocol[p] >= policies[id].payoutAmount)
    /\ [](\A c \in Users, id \in PolicyIds :
            claimPayoutError(c, id) # "Panic(0x11)")
    /\ [][\A c \in Users, id \in PolicyIds :
            (claimPayoutError(c, id) = "ok" /\ claimPayout(c, id)) =>
                /\ totalInsuredPerProtocol'[policies[id].protocol]
                       = totalInsuredPerProtocol[policies[id].protocol]
                             - policies[id].payoutAmount
                /\ totalInsuredPerProtocol'[policies[id].protocol] >= 0
                /\ \A p \in Protocols \ {policies[id].protocol} :
                       totalInsuredPerProtocol'[p] = totalInsuredPerProtocol[p]]_vars

\* two policies of one protocol, neither expired: one claimed and paid, the
\* aggregate now being the payout of the other
C39_Witness ==
    \E p \in Protocols, id \in PolicyIds, other \in PolicyIds :
        /\ policies[id].exists /\ policies[id].protocol = p
        /\ policies[id].claimed
        /\ other \in livePolicies(p)
        /\ blockTimestamp < policies[id].expiry
        /\ totalInsuredPerProtocol[p] = policies[other].payoutAmount
        /\ totalInsuredPerProtocol[p] > 0

(***************************************************************************)
(* Payouts against the vault's own shares (SpecVault).                     *)
(***************************************************************************)
\* C40: a payout is never blocked by the share accounting: in every state
\* reached through premium deposits, direct transfers of currency to the
\* vault, standard share deposits and earlier payouts, withdrawForPayout
\* called by the bound engine for a recipient that is not null and an
\* amount > 0 that the pooled assets cover succeeds.
C40_PayoutNeverBlockedByShares ==
    (equinoxProtocol = ENGINE /\ vaultStatus = NOT_ENTERED) =>
        \A t \in Users, a \in VaultAmountInputs \ {0} :
            totalAssets(Ledger) >= a =>
                withdrawForPayoutCall(Ledger, vaultStatus, equinoxProtocol,
                                      ENGINE, t, a).err = "ok"

====
